---- MODULE Spec2Model ----
(***************************************************************************)
(* A model of palin-core's model store: the Model / IndexRegistry          *)
(* contract (crates/model), the in-memory backend (crates/db-impl-mock)    *)
(* and the relational backend (crates/db-impl-postgres).                   *)
(*                                                                         *)
(* The model type is the `User` of examples/db-test: fields id, email,     *)
(* name, age; indices name_age (composite), email (unique), name.          *)
(***************************************************************************)
EXTENDS Integers, Sequences, FiniteSets, Bags, TLC

\* ------------------------------------------------------------------------
\* Bounds of the model
\* ------------------------------------------------------------------------
NumIds == 2

Ids == 1..NumIds
Ages == {1, 2}
\* Two callers share the store.
Clients == {"c1", "c2"}
\* Strings are sequences of characters.
Emails == {<<"a">>, <<"b">>}
Names == {<<"x">>, <<"y">>}

\* Option<RecordId>::None
NoId == 0

\* ------------------------------------------------------------------------
\* crates/model: IndexValue, IndexDefinition, IndexRegistry
\* ------------------------------------------------------------------------
RECURSIVE Concat(_)
Concat(ss) == IF ss = <<>> THEN <<>> ELSE Head(ss) \o Concat(Tail(ss))

RECURSIVE Join(_, _)
Join(ss, sep) ==
  IF ss = <<>> THEN <<>>
  ELSE IF Len(ss) = 1 THEN Head(ss)
  ELSE Head(ss) \o sep \o Join(Tail(ss), sep)

\* serde_json's string escaping, for the characters the model uses.
JsonEscapeChar(c) ==
  CASE c = "QUOTE" -> <<"BSLASH", "QUOTE">>
    [] c = "BSLASH" -> <<"BSLASH", "BSLASH">>
    [] c = "NUL" -> <<"BSLASH", "u", "0", "0", "0", "0">>
    [] OTHER -> <<c>>

JsonString(s) ==
  <<"QUOTE">> \o Concat([i \in 1..Len(s) |-> JsonEscapeChar(s[i])]) \o <<"QUOTE">>

\* IndexValue::new: the segments, kept as given.
IndexValueNew(segments) == segments
IndexValueNewSingle(segment) == <<segment>>

\* A Display that writes the segments bare, separated by commas.
IndexValueToString_plain(iv) == Join(iv, <<",">>)

\* impl Display for IndexValue: the JSON array of the segments.
IndexValueToString(iv) ==
  <<"[">> \o Join([i \in 1..Len(iv) |-> JsonString(iv[i])], <<",">>) \o <<"]">>

\* u32::to_string
RECURSIVE U32ToString(_)
U32ToString(n) ==
  LET d == <<"0", "1", "2", "3", "4", "5", "6", "7", "8", "9">>
  IN IF n < 10 THEN <<d[n + 1]>> ELSE U32ToString(n \div 10) \o <<d[(n % 10) + 1]>>

\* ------------------------------------------------------------------------
\* State
\* ------------------------------------------------------------------------
VARIABLES
  backend,      \* which backend the store was constructed with
  registry,     \* which model type M the store holds: M::indices()
  data,         \* MockDatabaseInner.data: id -> model
  indices,      \* MockDatabaseInner.indices: <<index name, key>> -> Seq(id)
  initialized,  \* MockDatabaseInner.initialized
  pg_schema,    \* relational: the tables exist
  pg_main,      \* relational main table: id -> document
  pg_idx,       \* relational side tables: bag of [index, index_key, record_id]
  pg_updated_at,\* relational main table: id -> updated_at
  pg_now,       \* relational: the server clock, what NOW() returns
  tx,           \* each client's call in progress (relational: its transaction)
  last,         \* the last completed call and what it returned
  pending,      \* each client's upsert or delete_and_return between its read and its write
  keys,         \* a key being built: the extractor's input, its IndexValues, the key
  belt_inner,   \* Belt.inner, with what the Belt was made from
  belt_count,   \* Belt.count, the AtomicU64 the Counters share
  belt_out,     \* what poll_next returned, poll by poll
  storage,      \* BlobStorageMemory.storage: key -> StoredBlob
  puts,         \* each client's put_stream in progress
  blob_last     \* the last completed blob storage call and what it returned

\* The model values: examples/db-test `User`.
Models == [id : Ids, email : Emails, name : Names, age : Ages]

\* The models the concurrent callers write.
ConcModels == {m \in Models : m.age = 1}

\* M::indices().definitions, in declaration order: those of `User`, and
\* those of a model type with the same fields whose names are unique too.
definitions ==
  << [name |-> "name_age", unique |-> FALSE],
     [name |-> "email", unique |-> TRUE],
     [name |-> "name", unique |-> registry = "Account"] >>

Selectors == {definitions[k].name : k \in 1..Len(definitions)}

\* IndexDefinition::extract: the extractor closures of `User`.
Extract(def, m) ==
  CASE def.name = "name_age" -> <<IndexValueNew(<<m.name, U32ToString(m.age)>>)>>
    [] def.name = "email" -> <<IndexValueNewSingle(m.email)>>
    [] def.name = "name" -> <<IndexValueNewSingle(m.name)>>

\* IndexRegistry::get: the first definition named like the selector, or 0.
RegistryGet(selector) ==
  LET hits == {k \in 1..Len(definitions) : definitions[k].name = selector}
  IN IF hits = {} THEN 0 ELSE CHOOSE k \in hits : \A j \in hits : k <= j

\* A key built from the raw segments, without IndexValue's Display.
format_index_key_raw(values) ==
  Join([i \in 1..Len(values) |-> Concat(values[i])], <<"NUL">>)

\* format_index_key: the values' strings joined by NUL (both backends).
format_index_key(values) ==
  Join([i \in 1..Len(values) |-> IndexValueToString(values[i])], <<"NUL">>)

vars ==
  <<backend, registry, data, indices, initialized, pg_schema, pg_main, pg_idx,
    pg_updated_at, pg_now, tx, last, pending, keys, belt_inner, belt_count, belt_out,
    storage, puts, blob_last>>
mockVars == <<data, indices, initialized>>
pgVars == <<pg_schema, pg_main, pg_idx, pg_updated_at, pg_now, tx>>
blobVars == <<storage, puts, blob_last>>
\* The values outside the store: the key slices, the byte stream, the blobs.
sideVars == <<registry, pending, keys, belt_inner, belt_count, belt_out, blobVars>>

EmptyMap == [x \in {} |-> x]

\* DatabaseResult values
Ok == [kind |-> "Ok", index |-> "", value |-> <<>>]
Err(kind) == [kind |-> kind, index |-> "", value |-> <<>>]
UniqueViolation(index, value) ==
  [kind |-> "UniqueViolation", index |-> index, value |-> value]

NoModel == [id |-> NoId, email |-> <<>>, name |-> <<>>, age |-> 0]
\* A completed call: its arguments, what it returned, and the document
\* get(id) returned just before it (<<>> when none).
Call(op, m, res, old) == [op |-> op, model |-> m, res |-> res, old |-> old]
IdOnly(id) == [id |-> id, email |-> <<>>, name |-> <<>>, age |-> 0]

\* No Belt has been made.
NoBelt == [kind |-> "None", bytes |-> <<>>, stream |-> <<>>, source |-> <<>>, dropped |-> FALSE]

\* No key slices and no stream: the store is used on its own.
\* No put_stream in progress.
NoPut == [pc |-> "idle", key |-> "", stream |-> <<>>, overwrite |-> FALSE]

\* No blob storage call has completed.
NoBlobCall == [op |-> "", key |-> "", res |-> "", out |-> <<>>]

\* BlobStorageMemory::new: an empty map.
NoBlobs ==
  /\ storage = EmptyMap
  /\ puts = [c \in Clients |-> NoPut]
  /\ blob_last = NoBlobCall

\* No call is between its read and its write.
NoPending == [op |-> "", model |-> NoModel, seen |-> <<>>]

NoSide ==
  /\ registry = "User"
  /\ pending = [c \in Clients |-> NoPending]
  /\ keys = [stage |-> "none", input |-> <<>>, values |-> <<>>, key |-> <<>>]
  /\ belt_inner = NoBelt
  /\ belt_count = 0
  /\ belt_out = <<>>
  /\ NoBlobs

\* No open transaction.
IdleTx == [pc |-> "idle", op |-> "", model |-> NoModel, k |-> 0, now |-> 0]

\* No caller holds the lock or has a transaction open.
AllIdle == \A c \in Clients : tx[c].pc = "idle"

\* A uniqueness check that excludes no record: an update collides with the
\* entry of the record it updates.
check_unique_violations_any(inner, model, exclude_id) ==
  LET Key(k) == <<definitions[k].name, format_index_key(Extract(definitions[k], model))>>
      bad == {k \in 1..Len(definitions) :
                definitions[k].unique /\ Key(k) \in DOMAIN inner.indices}
  IN IF bad = {} THEN Ok
     ELSE LET k == CHOOSE k \in bad : \A j \in bad : k <= j
          IN UniqueViolation(definitions[k].name, Key(k)[2])

\* A check that reports the unique index declared last among those violated.
check_unique_violations_last(inner, model, exclude_id) ==
  LET Key(k) == <<definitions[k].name, format_index_key(Extract(definitions[k], model))>>
      bad == {k \in 1..Len(definitions) :
                /\ definitions[k].unique
                /\ Key(k) \in DOMAIN inner.indices
                /\ \E i \in 1..Len(inner.indices[Key(k)]) :
                     inner.indices[Key(k)][i] # exclude_id}
  IN IF bad = {} THEN Ok
     ELSE LET k == CHOOSE k \in bad : \A j \in bad : k >= j
          IN UniqueViolation(definitions[k].name, Key(k)[2])

\* ------------------------------------------------------------------------
\* crates/db-impl-mock: MockDatabase
\* ------------------------------------------------------------------------
\* The first unique definition whose bucket holds an id other than exclude_id.
check_unique_violations(inner, model, exclude_id) ==
  LET Key(k) == <<definitions[k].name, format_index_key(Extract(definitions[k], model))>>
      bad == {k \in 1..Len(definitions) :
                /\ definitions[k].unique
                /\ Key(k) \in DOMAIN inner.indices
                /\ \E i \in 1..Len(inner.indices[Key(k)]) :
                     inner.indices[Key(k)][i] # exclude_id}
  IN IF bad = {} THEN Ok
     ELSE LET k == CHOOSE k \in bad : \A j \in bad : k <= j
          IN UniqueViolation(definitions[k].name, Key(k)[2])

\* inner.indices.entry(index_key).or_default().push(model.id()), per definition.
RECURSIVE InsertIndicesFrom(_, _, _)
InsertIndicesFrom(idx, model, k) ==
  IF k > Len(definitions) THEN idx
  ELSE LET key == <<definitions[k].name, format_index_key(Extract(definitions[k], model))>>
           old == IF key \in DOMAIN idx THEN idx[key] ELSE <<>>
           new == [b \in DOMAIN idx \cup {key} |->
                     IF b = key THEN Append(old, model.id) ELSE idx[b]]
       IN InsertIndicesFrom(new, model, k + 1)

insert_indices_inner(idx, model) == InsertIndicesFrom(idx, model, 1)

\* A retain that drops nothing.
delete_indices_inner_keep(idx, id) == idx

\* A retain that leaves the emptied buckets in the map.
delete_indices_inner_hollow(idx, id) ==
  [b \in DOMAIN idx |-> SelectSeq(idx[b], LAMBDA rid : rid # id)]

\* indices.retain: drop the id from every bucket, drop the emptied buckets.
delete_indices_inner(idx, id) ==
  LET Kept(b) == SelectSeq(idx[b], LAMBDA rid : rid # id)
      live == {b \in DOMAIN idx : Kept(b) # <<>>}
  IN [b \in live |-> Kept(b)]

\* A put that keeps the value a present key already has (entry().or_insert).
MapPut_keep(f, k, v) == [x \in DOMAIN f \cup {k} |-> IF x \in DOMAIN f THEN f[x] ELSE v]

MapPut(f, k, v) == [x \in DOMAIN f \cup {k} |-> IF x = k THEN v ELSE f[x]]
MapRemove(f, k) == [x \in DOMAIN f \ {k} |-> f[x]]

\* MockDatabase::get: Some(model) as <<model>>, None as <<>>.
MockGet(id) == IF id \in DOMAIN data THEN <<data[id]>> ELSE <<>>

\* The state behind the RwLock.
Inner == [data |-> data, indices |-> indices]

\* An insert that does not look for the id in `data`.
mock_insert_overwrite(inner, model) ==
  LET chk == check_unique_violations(inner, model, NoId)
  IN IF chk.kind # "Ok"
     THEN [inner |-> inner, res |-> chk]
     ELSE [inner |-> [data |-> MapPut(inner.data, model.id, model),
                      indices |-> insert_indices_inner(inner.indices, model)],
           res |-> Ok]

\* MockDatabase::insert, under the write lock.
mock_insert(inner, model) ==
  LET chk == check_unique_violations(inner, model, NoId)
  IN IF model.id \in DOMAIN inner.data
     THEN [inner |-> inner, res |-> Err("Database")]
     ELSE IF chk.kind # "Ok"
     THEN [inner |-> inner, res |-> chk]
     ELSE [inner |-> [data |-> MapPut(inner.data, model.id, model),
                      indices |-> insert_indices_inner(inner.indices, model)],
           res |-> Ok]

\* An update that drops the old index entries before it checks uniqueness.
mock_update_eager(inner, model) ==
  LET dropped == [inner EXCEPT !.indices = delete_indices_inner(@, model.id)]
      chk == check_unique_violations(dropped, model, model.id)
  IN IF model.id \notin DOMAIN inner.data
     THEN [inner |-> inner, res |-> Err("NotFound")]
     ELSE IF chk.kind # "Ok"
     THEN [inner |-> dropped, res |-> chk]
     ELSE [inner |-> [data |-> MapPut(inner.data, model.id, model),
                      indices |-> insert_indices_inner(dropped.indices, model)],
           res |-> Ok]

\* MockDatabase::update, under the write lock.
mock_update(inner, model) ==
  LET chk == check_unique_violations(inner, model, model.id)
  IN IF model.id \notin DOMAIN inner.data
     THEN [inner |-> inner, res |-> Err("NotFound")]
     ELSE IF chk.kind # "Ok"
     THEN [inner |-> inner, res |-> chk]
     ELSE [inner |-> [data |-> MapPut(inner.data, model.id, model),
                      indices |-> insert_indices_inner(
                                    delete_indices_inner(inner.indices, model.id), model)],
           res |-> Ok]

\* A delete that drops the index entries and keeps the record.
mock_delete_indices_only(inner, id) ==
  IF id \notin DOMAIN inner.data
  THEN [inner |-> inner, res |-> Err("NotFound")]
  ELSE [inner |-> [inner EXCEPT !.indices = delete_indices_inner(@, id)], res |-> Ok]

\* MockDatabase::delete, under the write lock.
mock_delete(inner, id) ==
  IF id \notin DOMAIN inner.data
  THEN [inner |-> inner, res |-> Err("NotFound")]
  ELSE [inner |-> [data |-> MapRemove(inner.data, id),
                   indices |-> delete_indices_inner(inner.indices, id)],
        res |-> Ok]

MockInitializeSchema ==
  /\ backend = "mock"
  /\ AllIdle
  /\ initialized' = TRUE
  /\ last' = Call("initialize_schema", NoModel, Ok, <<>>)
  /\ UNCHANGED <<backend, sideVars, data, indices, pgVars>>

MockInsert(model) ==
  /\ backend = "mock"
  /\ LET r == mock_insert(Inner, model)
     IN /\ data' = r.inner.data
        /\ indices' = r.inner.indices
        /\ last' = Call("insert", model, r.res, MockGet(model.id))
  /\ UNCHANGED <<backend, sideVars, initialized, pgVars>>

MockUpdate(model) ==
  /\ backend = "mock"
  /\ LET r == mock_update(Inner, model)
     IN /\ data' = r.inner.data
        /\ indices' = r.inner.indices
        /\ last' = Call("update", model, r.res, MockGet(model.id))
  /\ UNCHANGED <<backend, sideVars, initialized, pgVars>>

MockDelete(id) ==
  /\ backend = "mock"
  /\ LET r == mock_delete(Inner, id)
     IN /\ data' = r.inner.data
        /\ indices' = r.inner.indices
        /\ last' = Call("delete", IdOnly(id), r.res, MockGet(id))
  /\ UNCHANGED <<backend, sideVars, initialized, pgVars>>

MockClear ==
  /\ backend = "mock"
  /\ data' = EmptyMap
  /\ indices' = EmptyMap
  /\ last' = Call("clear", NoModel, Ok, <<>>)
  /\ UNCHANGED <<backend, sideVars, initialized, pgVars>>

\* Reads (each takes the read lock and returns a value).
MockCount == Cardinality(DOMAIN data)

\* A unique lookup that does not look at the definition's `unique` flag.
MockFindByUniqueIndex_any(selector, key) ==
  LET k == RegistryGet(selector)
      index_key == <<selector, IndexValueToString(key)>>
  IN IF k = 0 THEN [res |-> Err("IndexNotFound"), found |-> <<>>]
     ELSE IF index_key \in DOMAIN indices /\ indices[index_key] # <<>>
     THEN [res |-> Ok, found |-> MockGet(Head(indices[index_key]))]
     ELSE [res |-> Ok, found |-> <<>>]

MockFindByUniqueIndex(selector, key) ==
  LET k == RegistryGet(selector)
      index_key == <<selector, IndexValueToString(key)>>
  IN IF k = 0 THEN [res |-> Err("IndexNotFound"), found |-> <<>>]
     ELSE IF ~definitions[k].unique THEN [res |-> Err("IndexNotUnique"), found |-> <<>>]
     ELSE IF index_key \in DOMAIN indices /\ indices[index_key] # <<>>
     THEN [res |-> Ok, found |-> MockGet(Head(indices[index_key]))]
     ELSE [res |-> Ok, found |-> <<>>]

RECURSIVE MockCollect(_)
MockCollect(record_ids) ==
  IF record_ids = <<>> THEN <<>>
  ELSE MockGet(Head(record_ids)) \o MockCollect(Tail(record_ids))

\* A lookup that files the key under its bare segments.
MockFindByIndex_raw(selector, key) ==
  LET k == RegistryGet(selector)
      index_key == <<selector, Concat(key)>>
  IN IF k = 0 THEN [res |-> Err("IndexNotFound"), found |-> <<>>]
     ELSE IF index_key \in DOMAIN indices
     THEN [res |-> Ok, found |-> MockCollect(indices[index_key])]
     ELSE [res |-> Ok, found |-> <<>>]

MockFindByIndex(selector, key) ==
  LET k == RegistryGet(selector)
      index_key == <<selector, IndexValueToString(key)>>
  IN IF k = 0 THEN [res |-> Err("IndexNotFound"), found |-> <<>>]
     ELSE IF index_key \in DOMAIN indices
     THEN [res |-> Ok, found |-> MockCollect(indices[index_key])]
     ELSE [res |-> Ok, found |-> <<>>]

\* ------------------------------------------------------------------------
\* crates/db-impl-postgres: PostgresDatabase
\* A database value is [main, idx, at, now]: the main table's documents, the
\* side-table rows, the main table's updated_at column, and what NOW() is in
\* the transaction; a statement returns the database it leaves and its result.
\* ------------------------------------------------------------------------
Row(index, index_key, record_id) ==
  [index |-> index, index_key |-> index_key, record_id |-> record_id]

Filter(bag, Keep(_)) == [r \in {x \in DOMAIN bag : Keep(x)} |-> bag[r]]

Committed == [main |-> pg_main, idx |-> pg_idx, at |-> pg_updated_at, now |-> pg_now]

\* "INSERT INTO {table} (id, data) VALUES ($1, $2)": id is the primary key,
\* updated_at defaults to NOW().
PgInsertMainRow(db, model) ==
  IF model.id \in DOMAIN db.main
  THEN [db |-> db, res |-> Err("Database")]
  ELSE [db |-> [db EXCEPT !.main = MapPut(db.main, model.id, model),
                          !.at = MapPut(db.at, model.id, db.now)],
        res |-> Ok]

\* An UPDATE that inserts the row when it is absent.
PgUpdateMainRow_upsert(db, model) ==
  [db |-> [db EXCEPT !.main = MapPut(db.main, model.id, model),
                     !.at = MapPut(db.at, model.id, db.now)],
   res |-> Ok]

\* "UPDATE {table} SET data = $1, updated_at = NOW() WHERE id = $2"
PgUpdateMainRow(db, model) ==
  IF model.id \notin DOMAIN db.main
  THEN [db |-> db, res |-> Err("NotFound")]
  ELSE [db |-> [db EXCEPT !.main = MapPut(db.main, model.id, model),
                          !.at = MapPut(db.at, model.id, db.now)],
        res |-> Ok]

\* A side-table INSERT without the UNIQUE (index_key) constraint.
PgInsertIndexRow_no_unique(db, def, model) ==
  LET index_key == format_index_key(Extract(def, model))
  IN IF model.id \notin DOMAIN db.main
     THEN [db |-> db, res |-> Err("Database")]
     ELSE [db |-> [db EXCEPT !.idx = @ (+) SetToBag({Row(def.name, index_key, model.id)})],
           res |-> Ok]

\* A side-table INSERT with UNIQUE (index_key) on every side table.
PgInsertIndexRow_all_unique(db, def, model) ==
  LET index_key == format_index_key(Extract(def, model))
      taken == \E r \in DOMAIN db.idx : r.index = def.name /\ r.index_key = index_key
  IN IF taken
     THEN [db |-> db, res |-> UniqueViolation(def.name, index_key)]
     ELSE IF model.id \notin DOMAIN db.main
     THEN [db |-> db, res |-> Err("Database")]
     ELSE [db |-> [db EXCEPT !.idx = @ (+) SetToBag({Row(def.name, index_key, model.id)})],
           res |-> Ok]

\* "INSERT INTO {index_table} (index_key, record_id) VALUES ($1, $2)":
\* UNIQUE (index_key) iff the index is unique; record_id REFERENCES main(id).
PgInsertIndexRow(db, def, model) ==
  LET index_key == format_index_key(Extract(def, model))
      taken == \E r \in DOMAIN db.idx : r.index = def.name /\ r.index_key = index_key
  IN IF def.unique /\ taken
     THEN [db |-> db, res |-> UniqueViolation(def.name, index_key)]
     ELSE IF model.id \notin DOMAIN db.main
     THEN [db |-> db, res |-> Err("Database")]
     ELSE [db |-> [db EXCEPT !.idx = @ (+) SetToBag({Row(def.name, index_key, model.id)})],
           res |-> Ok]

\* insert_indices: one row per definition, in order, stopping at the first error.
RECURSIVE InsertIndexRowsFrom(_, _, _)
InsertIndexRowsFrom(db, model, k) ==
  IF k > Len(definitions) THEN [db |-> db, res |-> Ok]
  ELSE LET s == PgInsertIndexRow(db, definitions[k], model)
       IN IF s.res.kind # "Ok" THEN s ELSE InsertIndexRowsFrom(s.db, model, k + 1)

insert_indices(db, model) == InsertIndexRowsFrom(db, model, 1)

\* A delete_indices that deletes no row.
delete_indices_keep(db, id) == db

\* delete_indices: "DELETE FROM {index_table} WHERE record_id = $1", per definition.
delete_indices(db, id) ==
  [db EXCEPT !.idx = Filter(@, LAMBDA r : ~(r.index \in Selectors /\ r.record_id = id))]

\* A DELETE whose rows_affected is not looked at.
PgDeleteMainRow_unchecked(db, id) ==
  [db |-> [db EXCEPT !.main = MapRemove(db.main, id),
                     !.idx = Filter(db.idx, LAMBDA r : r.record_id # id),
                     !.at = MapRemove(db.at, id)],
   res |-> Ok]

\* "DELETE FROM {table} WHERE id = $1"; side rows go by ON DELETE CASCADE.
PgDeleteMainRow(db, id) ==
  IF id \notin DOMAIN db.main
  THEN [db |-> db, res |-> Err("NotFound")]
  ELSE [db |-> [db EXCEPT !.main = MapRemove(db.main, id),
                          !.idx = Filter(db.idx, LAMBDA r : r.record_id # id),
                          !.at = MapRemove(db.at, id)],
        res |-> Ok]

\* A failed transaction whose writes stay.
Rollback_none(before, working) == working

\* A transaction dropped without commit rolls back: the database is as at begin.
Rollback(before, working) == before

\* PostgresDatabase::insert, as one transaction.
PgInsertTx(db, model) ==
  LET s1 == PgInsertMainRow(db, model)
      s2 == insert_indices(s1.db, model)
  IN IF s1.res.kind # "Ok" THEN [db |-> Rollback(db, s1.db), res |-> s1.res]
     ELSE IF s2.res.kind # "Ok" THEN [db |-> Rollback(db, s2.db), res |-> s2.res]
     ELSE [db |-> s2.db, res |-> Ok]

\* An update that inserts the new index rows next to the old ones.
PgUpdateTx_no_delete(db, model) ==
  LET s1 == PgUpdateMainRow(db, model)
      s3 == insert_indices(s1.db, model)
  IN IF s1.res.kind # "Ok" THEN [db |-> Rollback(db, s1.db), res |-> s1.res]
     ELSE IF s3.res.kind # "Ok" THEN [db |-> Rollback(db, s3.db), res |-> s3.res]
     ELSE [db |-> s3.db, res |-> Ok]

\* PostgresDatabase::update, as one transaction.
PgUpdateTx(db, model) ==
  LET s1 == PgUpdateMainRow(db, model)
      s2 == delete_indices(s1.db, model.id)
      s3 == insert_indices(s2, model)
  IN IF s1.res.kind # "Ok" THEN [db |-> Rollback(db, s1.db), res |-> s1.res]
     ELSE IF s3.res.kind # "Ok" THEN [db |-> Rollback(db, s3.db), res |-> s3.res]
     ELSE [db |-> s3.db, res |-> Ok]

\* PostgresDatabase::get: "SELECT data FROM {table} WHERE id = $1".
PgGet(id) == IF id \in DOMAIN pg_main THEN <<pg_main[id]>> ELSE <<>>

\* Timestamps are compared only with each other (ORDER BY updated_at), so
\* the state keeps their order: the instants in use, the stored updated_at
\* values and the NOW() of the open transactions, are numbered 1, 2, ... in
\* increasing order, the clock after them.
Times(at, txs) ==
  {at[id] : id \in DOMAIN at} \cup {txs[c].now : c \in {d \in Clients : txs[d].pc # "idle"}}

Rank(t, at, txs) == Cardinality({u \in Times(at, txs) \cup {pg_now} : u <= t})

\* The step leaves updated_at column `at` and transactions `txs`.
Clock(at, txs) ==
  /\ pg_updated_at' = [id \in DOMAIN at |-> Rank(at[id], at, txs)]
  /\ tx' = [c \in Clients |->
              IF txs[c].pc = "idle" THEN txs[c]
              ELSE [txs[c] EXCEPT !.now = Rank(@, at, txs)]]
  /\ pg_now' = Rank(pg_now, at, txs)

\* Time passes on the server: NOW() is later than every instant in use.
PgTick ==
  /\ backend = "postgres"
  /\ pg_now \in Times(pg_updated_at, tx)
  /\ pg_now' = pg_now + 1
  /\ UNCHANGED <<backend, sideVars, mockVars, pg_schema, pg_main, pg_idx, pg_updated_at, tx, last>>

\* A schema initialization that creates the tables anew.
PgInitializeSchema_recreate ==
  /\ backend = "postgres"
  /\ AllIdle
  /\ pg_schema' = TRUE
  /\ pg_main' = EmptyMap
  /\ pg_idx' = EmptyBag
  /\ pg_updated_at' = EmptyMap
  /\ last' = Call("initialize_schema", NoModel, Ok, <<>>)
  /\ UNCHANGED <<backend, sideVars, mockVars, pg_now, tx>>

PgInitializeSchema ==
  /\ backend = "postgres"
  /\ pg_schema' = TRUE
  /\ last' = Call("initialize_schema", NoModel, Ok, <<>>)
  /\ UNCHANGED <<backend, sideVars, mockVars, pg_main, pg_idx, pg_updated_at, pg_now, tx>>

\* The calls of one caller at a time: each runs to completion. The
\* statements of a call run against the tables initialize_schema creates; a
\* server that cannot run them (no connection, no tables) is not modelled.
PgInsert(model) ==
  /\ backend = "postgres"
  /\ pg_schema
  /\ AllIdle
  /\ LET r == PgInsertTx(Committed, model)
     IN /\ pg_main' = r.db.main
        /\ pg_idx' = r.db.idx
        /\ Clock(r.db.at, tx)
        /\ last' = Call("insert", model, r.res, PgGet(model.id))
  /\ UNCHANGED <<backend, sideVars, mockVars, pg_schema>>

PgUpdate(model) ==
  /\ backend = "postgres"
  /\ pg_schema
  /\ AllIdle
  /\ LET r == PgUpdateTx(Committed, model)
     IN /\ pg_main' = r.db.main
        /\ pg_idx' = r.db.idx
        /\ Clock(r.db.at, tx)
        /\ last' = Call("update", model, r.res, PgGet(model.id))
  /\ UNCHANGED <<backend, sideVars, mockVars, pg_schema>>

PgDelete(id) ==
  /\ backend = "postgres"
  /\ pg_schema
  /\ AllIdle
  /\ LET r == PgDeleteMainRow(Committed, id)
     IN /\ pg_main' = r.db.main
        /\ pg_idx' = r.db.idx
        /\ Clock(r.db.at, tx)
        /\ last' = Call("delete", IdOnly(id), r.res, PgGet(id))
  /\ UNCHANGED <<backend, sideVars, mockVars, pg_schema>>

\* ------------------------------------------------------------------------
\* Concurrent callers of the relational backend: each client's transaction
\* runs one statement per step (READ COMMITTED: a statement sees the
\* committed rows and its own transaction's writes; a statement that meets
\* another open transaction's write of the same row or unique key waits).
\* ------------------------------------------------------------------------
MainDone(t) == t.pc \in {"del", "idx", "commit"}
DelDone(t) == t.op = "update" /\ t.pc \in {"idx", "commit"}
Inserted(t) ==
  IF t.pc = "idx" THEN t.k - 1 ELSE IF t.pc = "commit" THEN Len(definitions) ELSE 0

KeyOf(k, model) == format_index_key(Extract(definitions[k], model))

StagedRows(model, n) ==
  LET rows == {Row(definitions[k].name, KeyOf(k, model), model.id) : k \in 1..n}
  IN [r \in rows |-> Cardinality({k \in 1..n : Row(definitions[k].name, KeyOf(k, model), model.id) = r})]

\* The rows the statements of c's transaction see.
View(c) ==
  LET t == tx[c]
      d0 == [Committed EXCEPT !.now = t.now]
      d1 == IF MainDone(t)
            THEN [d0 EXCEPT !.main = MapPut(@, t.model.id, t.model),
                            !.at = MapPut(@, t.model.id, t.now)]
            ELSE d0
      d2 == IF DelDone(t) THEN delete_indices(d1, t.model.id) ELSE d1
  IN [d2 EXCEPT !.idx = @ (+) StagedRows(t.model, Inserted(t))]

\* What other open transactions hold.
HoldsRow(d, id) == tx[d].op = "update" /\ MainDone(tx[d]) /\ tx[d].model.id = id
StagedMainInsert(d, id) == tx[d].op = "insert" /\ MainDone(tx[d]) /\ tx[d].model.id = id
StagedKey(d, k, key) == Inserted(tx[d]) >= k /\ KeyOf(k, tx[d].model) = key
StagedRowDelete(d, r) == DelDone(tx[d]) /\ r.record_id = tx[d].model.id

\* self.pool.begin()
PgBegin(c, op, model) ==
  /\ backend = "postgres"
  /\ pg_schema
  /\ tx[c].pc = "idle"
  /\ tx' = [tx EXCEPT ![c] =
              [pc |-> "main", op |-> op, model |-> model, k |-> 0, now |-> pg_now]]
  /\ UNCHANGED <<backend, sideVars, mockVars, pg_schema, pg_main, pg_idx, pg_updated_at, pg_now, last>>

\* The INSERT / UPDATE of the main row.
PgStmtMain(c) ==
  LET t == tx[c]
      id == t.model.id
      others == Clients \ {c}
      waits == IF t.op = "insert"
               THEN \E d \in others : \/ StagedMainInsert(d, id)
                                      \/ id \in DOMAIN pg_main /\ HoldsRow(d, id)
               ELSE \E d \in others : id \in DOMAIN pg_main /\ HoldsRow(d, id)
      s == IF t.op = "insert" THEN PgInsertMainRow(View(c), t.model)
           ELSE PgUpdateMainRow(View(c), t.model)
  IN /\ backend = "postgres"
     /\ t.pc = "main"
     /\ ~waits
     /\ Clock(pg_updated_at,
              [tx EXCEPT ![c] =
                 IF s.res.kind # "Ok" THEN IdleTx
                 ELSE IF t.op = "insert" THEN [t EXCEPT !.pc = "idx", !.k = 1]
                 ELSE [t EXCEPT !.pc = "del"]])
     /\ UNCHANGED <<backend, sideVars, mockVars, pg_schema, pg_main, pg_idx, last>>

\* update: self.delete_indices(&mut tx, id)
PgStmtDeleteIndices(c) ==
  /\ backend = "postgres"
  /\ tx[c].pc = "del"
  /\ tx' = [tx EXCEPT ![c] = [@ EXCEPT !.pc = "idx", !.k = 1]]
  /\ UNCHANGED <<backend, sideVars, mockVars, pg_schema, pg_main, pg_idx, pg_updated_at, pg_now, last>>

\* insert_indices: the INSERT of the row of definition k.
PgStmtInsertIndex(c) ==
  LET t == tx[c]
      def == definitions[t.k]
      key == KeyOf(t.k, t.model)
      others == Clients \ {c}
      waits == /\ def.unique
               /\ \E d \in others :
                    \/ StagedKey(d, t.k, key)
                    \/ \E r \in DOMAIN pg_idx : /\ r.index = def.name
                                                /\ r.index_key = key
                                                /\ StagedRowDelete(d, r)
      s == PgInsertIndexRow(View(c), def, t.model)
  IN /\ backend = "postgres"
     /\ t.pc = "idx"
     /\ ~waits
     /\ Clock(pg_updated_at,
              [tx EXCEPT ![c] =
                 IF s.res.kind # "Ok" THEN IdleTx
                 ELSE IF t.k = Len(definitions) THEN [t EXCEPT !.pc = "commit"]
                 ELSE [t EXCEPT !.k = t.k + 1]])
     /\ UNCHANGED <<backend, sideVars, mockVars, pg_schema, pg_main, pg_idx, last>>

\* tx.commit()
PgCommit(c) ==
  /\ backend = "postgres"
  /\ tx[c].pc = "commit"
  /\ pg_main' = View(c).main
  /\ pg_idx' = View(c).idx
  /\ Clock(View(c).at, [tx EXCEPT ![c] = IdleTx])
  /\ UNCHANGED <<backend, sideVars, mockVars, pg_schema, last>>

\* A dropped transaction whose statements stay in the tables.
PgCancel_flush(c) ==
  /\ backend = "postgres"
  /\ tx[c].pc # "idle"
  /\ pg_main' = View(c).main
  /\ pg_idx' = View(c).idx
  /\ Clock(View(c).at, [tx EXCEPT ![c] = IdleTx])
  /\ UNCHANGED <<backend, sideVars, mockVars, pg_schema, last>>

\* The call's future is dropped, or the server aborts the transaction
\* (deadlock): the transaction rolls back.
PgCancel(c) ==
  /\ backend = "postgres"
  /\ tx[c].pc # "idle"
  /\ Clock(pg_updated_at, [tx EXCEPT ![c] = IdleTx])
  /\ UNCHANGED <<backend, sideVars, mockVars, pg_schema, pg_main, pg_idx, last>>

\* PostgresDatabase::delete: one statement on the pool, committed at once.
PgStmtDelete(c, id) ==
  LET s == PgDeleteMainRow(Committed, id)
  IN /\ backend = "postgres"
     /\ pg_schema
     /\ tx[c].pc = "idle"
     /\ ~\E d \in Clients \ {c} : id \in DOMAIN pg_main /\ HoldsRow(d, id)
     /\ pg_main' = s.db.main
     /\ pg_idx' = s.db.idx
     /\ Clock(s.db.at, tx)
     /\ UNCHANGED <<backend, sideVars, mockVars, pg_schema, last>>

\* Reads: one SELECT each, on the committed rows.
\* A count of the side-table rows.
PgCount_rows == BagCardinality(pg_idx)

PgCount == Cardinality(DOMAIN pg_main)

\* The rows of "main m INNER JOIN {index_table} i ON m.id = i.record_id
\* WHERE i.index_key = $1", as a bag of documents.
PgJoin(selector, index_key) ==
  LET rows == Filter(pg_idx, LAMBDA r : /\ r.index = selector
                                        /\ r.index_key = index_key
                                        /\ r.record_id \in DOMAIN pg_main)
  IN [m \in {pg_main[r.record_id] : r \in DOMAIN rows} |->
        LET of == {r \in DOMAIN rows : pg_main[r.record_id] = m}
        IN rows[CHOOSE r \in of : TRUE]]

\* fetch_optional on the join: None without a row, else a row of it; `found`
\* is the set of documents the call may return.
PgFindByUniqueIndex(selector, key) ==
  LET k == RegistryGet(selector)
  IN IF k = 0 THEN [res |-> Err("IndexNotFound"), found |-> {}]
     ELSE IF ~definitions[k].unique THEN [res |-> Err("IndexNotUnique"), found |-> {}]
     ELSE IF ~pg_schema THEN [res |-> Err("Database"), found |-> {}]
     ELSE [res |-> Ok, found |-> DOMAIN PgJoin(selector, IndexValueToString(key))]

PgFindByIndex(selector, key) ==
  LET k == RegistryGet(selector)
  IN IF k = 0 THEN [res |-> Err("IndexNotFound"), found |-> EmptyBag]
     ELSE IF ~pg_schema THEN [res |-> Err("Database"), found |-> EmptyBag]
     ELSE [res |-> Ok, found |-> PgJoin(selector, IndexValueToString(key))]

\* ------------------------------------------------------------------------
\* Specification
\* ------------------------------------------------------------------------
Init ==
  /\ backend \in {"mock", "postgres"}
  /\ data = EmptyMap
  /\ indices = EmptyMap
  /\ initialized = FALSE
  /\ pg_schema = FALSE
  /\ pg_main = EmptyMap
  /\ pg_idx = EmptyBag
  /\ pg_updated_at = EmptyMap
  /\ pg_now = 1
  /\ tx = [c \in Clients |-> IdleTx]
  /\ last = Call("new", NoModel, Ok, <<>>)
  /\ NoSide

MockNext ==
  \/ MockInitializeSchema
  \/ \E m \in Models : MockInsert(m)
  \/ \E m \in Models : MockUpdate(m)
  \/ \E id \in Ids : MockDelete(id)
  \/ MockClear

PgNext ==
  \/ PgInitializeSchema
  \/ \E m \in Models : PgInsert(m)
  \/ \E m \in Models : PgUpdate(m)
  \/ \E id \in Ids : PgDelete(id)

Next == MockNext \/ PgNext

Spec == Init /\ [][Next]_vars

\* One caller at a time, with time passing between the calls.
NextList == Next \/ PgTick

SpecList == Init /\ [][NextList]_vars

\* Concurrent callers.
PgConcNext ==
  \/ PgInitializeSchema
  \/ \E c \in Clients, m \in ConcModels : PgBegin(c, "insert", m)
  \/ \E c \in Clients, m \in ConcModels : PgBegin(c, "update", m)
  \/ \E c \in Clients : PgStmtMain(c)
  \/ \E c \in Clients : PgStmtDeleteIndices(c)
  \/ \E c \in Clients : PgStmtInsertIndex(c)
  \/ \E c \in Clients : PgCommit(c)
  \/ \E c \in Clients : PgCancel(c)
  \/ \E c \in Clients, id \in Ids : PgStmtDelete(c, id)

NextConc == MockNext \/ PgConcNext

SpecConc == Init /\ [][NextConc]_vars
\* ------------------------------------------------------------------------
\* Properties
\* ------------------------------------------------------------------------
\* What the store's callers see, whichever backend it was built with.
Live(id) == IF backend = "mock" THEN id \in DOMAIN data ELSE id \in DOMAIN pg_main
Get(id) == IF backend = "mock" THEN MockGet(id) ELSE PgGet(id)
Count == IF backend = "mock" THEN MockCount ELSE PgCount
Store == <<data, indices, pg_main, pg_idx>>
UniqueDefs == {k \in 1..Len(definitions) : definitions[k].unique}

\* The positions of the in-memory index map that hold id under index `name`.
MockEntries(name, id) ==
  {p \in UNION {{<<b, i>> : i \in 1..Len(indices[b])} : b \in DOMAIN indices} :
     p[1][1] = name /\ indices[p[1]][p[2]] = id}

\* The side-table rows of index `name` that reference id.
PgEntries(name, id) ==
  Filter(pg_idx, LAMBDA r : r.index = name /\ r.record_id = id)

\* C1: index completeness. In every state a caller can see, on either
\* backend and under any interleaving of concurrent calls, every live record
\* has, for every declared index, exactly one index entry, and that entry is
\* filed under the key the extractor yields for the stored document.
C1_IndexCompleteness ==
  /\ \A id \in DOMAIN data : \A k \in 1..Len(definitions) :
       LET name == definitions[k].name
           b == <<name, KeyOf(k, data[id])>>
       IN /\ Cardinality(MockEntries(name, id)) = 1
          /\ b \in DOMAIN indices
          /\ \E i \in 1..Len(indices[b]) : indices[b][i] = id
  /\ \A id \in DOMAIN pg_main : \A k \in 1..Len(definitions) :
       LET name == definitions[k].name
       IN /\ BagCardinality(PgEntries(name, id)) = 1
          /\ CopiesIn(Row(name, KeyOf(k, pg_main[id]), id), pg_idx) = 1

\* C1 witness: two live records are visible while a concurrent update that
\* renames one of them has dropped its old side rows and is re-inserting.
C1_Witness ==
  /\ backend = "postgres"
  /\ Cardinality(DOMAIN pg_main) = 2
  /\ \E c \in Clients :
       /\ tx[c].op = "update" /\ tx[c].pc = "idx" /\ tx[c].k = 2
       /\ tx[c].model.id \in DOMAIN pg_main
       /\ pg_main[tx[c].model.id].name # tx[c].model.name

\* C2: no orphans. In every state a caller can see, on either backend and
\* under any interleaving, no index entry (bucket member or side-table row)
\* references an id that has no live record.
C2_NoOrphans ==
  /\ \A b \in DOMAIN indices : \A i \in 1..Len(indices[b]) : indices[b][i] \in DOMAIN data
  /\ \A r \in DOMAIN pg_idx : r.record_id \in DOMAIN pg_main

\* C2 witness: a delete has just removed one of two records of the in-memory
\* store; the other record and its entries remain.
C2_Witness ==
  /\ backend = "mock"
  /\ last.op = "delete" /\ last.res.kind = "Ok" /\ last.old # <<>>
  /\ DOMAIN data # {} /\ DOMAIN indices # {}

\* C3: uniqueness. In every state a caller can see, on either backend and
\* under any interleaving (writers racing for one key included), no two
\* live records map to the same composite key of a unique index.
C3_Uniqueness ==
  /\ \A k \in UniqueDefs : \A i, j \in DOMAIN data :
       i # j => KeyOf(k, data[i]) # KeyOf(k, data[j])
  /\ \A k \in UniqueDefs : \A i, j \in DOMAIN pg_main :
       i # j => KeyOf(k, pg_main[i]) # KeyOf(k, pg_main[j])

\* C3 witness: two relational writers race for one unique key; one has
\* written the key's row and is about to commit, the other is at the same
\* INSERT for another record.
C3_Witness ==
  /\ backend = "postgres"
  /\ \E c, d \in Clients :
       /\ c # d
       /\ tx[c].pc = "commit" /\ tx[d].pc = "idx"
       /\ \E k \in UniqueDefs :
            /\ tx[d].k = k
            /\ tx[c].model.id # tx[d].model.id
            /\ KeyOf(k, tx[c].model) = KeyOf(k, tx[d].model)

\* ------------------------------------------------------------------------
\* Calls of one caller at a time (Spec): `last` is the call a step made.
\* ------------------------------------------------------------------------
\* Another live record holds the key m has on some unique index.
KeyHeldByOther(m) ==
  \E k \in UniqueDefs : \E j \in Ids :
    j # m.id /\ Live(j) /\ KeyOf(k, Get(j)[1]) = KeyOf(k, m)

\* No index entry at all references id.
NoEntriesFor(id) ==
  /\ \A b \in DOMAIN indices : \A i \in 1..Len(indices[b]) : indices[b][i] # id
  /\ \A r \in DOMAIN pg_idx : r.record_id # id

\* id has an entry on index k under the key of document doc.
HasEntry(k, id, doc) ==
  LET name == definitions[k].name
  IN IF backend = "mock"
     THEN /\ <<name, KeyOf(k, doc)>> \in DOMAIN indices
          /\ \E i \in 1..Len(indices[<<name, KeyOf(k, doc)>>]) :
               indices[<<name, KeyOf(k, doc)>>][i] = id
     ELSE CopiesIn(Row(name, KeyOf(k, doc), id), pg_idx) >= 1

SeqToBag(seq) ==
  [x \in {seq[i] : i \in 1..Len(seq)} |-> Cardinality({i \in 1..Len(seq) : seq[i] = x})]

\* find_by_index(selector, key): the documents returned, with multiplicity.
FindByIndex(selector, key) ==
  IF backend = "mock"
  THEN LET r == MockFindByIndex(selector, key)
       IN [res |-> r.res, found |-> SeqToBag(r.found)]
  ELSE PgFindByIndex(selector, key)

\* find_by_unique_index(selector, key): the documents the call may return.
FindByUniqueIndex(selector, key) ==
  IF backend = "mock"
  THEN LET r == MockFindByUniqueIndex(selector, key)
       IN [res |-> r.res, found |-> {r.found[i] : i \in 1..Len(r.found)}]
  ELSE PgFindByUniqueIndex(selector, key)

\* The lookup keys a caller may pass.
AllKeys ==
  {IndexValueNewSingle(v) : v \in Emails \cup Names}
    \cup {IndexValueNew(<<n, U32ToString(a)>>) : n \in Names, a \in Ages}

\* Some index lookup returns a document of record id.
ReturnedByFind(id) ==
  \E sel \in Selectors, key \in AllKeys :
       \/ \E doc \in DOMAIN FindByIndex(sel, key).found : doc.id = id
       \/ \E doc \in FindByUniqueIndex(sel, key).found : doc.id = id

\* C4: insert of a model whose id is already present fails and leaves the
\* store unchanged: count() unchanged, get(id) still the original record,
\* every index entry as before, whatever the incoming model's fields.
C4_InsertDuplicateId ==
  [][\A m \in Models :
       (last'.op = "insert" /\ last'.model = m /\ Live(m.id)) =>
         /\ last'.res.kind # "Ok"
         /\ Store' = Store
         /\ Count' = Count
         /\ Get(m.id)' = Get(m.id)]_vars

\* C4 witness: an insert was refused for an id whose stored record has other
\* indexed fields than the incoming model, and the stored record is intact.
C4_Witness ==
  /\ last.op = "insert" /\ last.res.kind # "Ok"
  /\ last.old # <<>>
  /\ last.old[1].email # last.model.email
  /\ last.old[1].name # last.model.name
  /\ Get(last.model.id) = last.old

\* C5: insert of a model with a fresh id whose key on a unique index is held
\* by a live record fails with UniqueViolation and leaves the store
\* unchanged: the record is not retrievable, count() is unchanged and no
\* index entry on any index exists for the rejected id.
C5_InsertUniqueConflict ==
  [][\A m \in Models :
       (last'.op = "insert" /\ last'.model = m /\ ~Live(m.id) /\ KeyHeldByOther(m)) =>
         /\ last'.res.kind = "UniqueViolation"
         /\ Store' = Store
         /\ Count' = Count
         /\ Get(m.id)' = <<>>
         /\ NoEntriesFor(m.id)']_vars

\* C5 witness: the relational backend refused an insert with UniqueViolation
\* (the name_age row precedes the conflicting email row in its transaction).
C5_Witness ==
  /\ backend = "postgres"
  /\ last.op = "insert" /\ last.res.kind = "UniqueViolation"
  /\ last.res.index = "email"
  /\ last.old = <<>>
  /\ Count = 1

\* C6: update of a model whose id is not present fails with NotFound and
\* mutates nothing, on either backend: no record is created, no index entry
\* is added or removed, count() is unchanged.
C6_UpdateMissing ==
  [][\A m \in Models :
       (last'.op = "update" /\ last'.model = m /\ ~Live(m.id)) =>
         /\ last'.res.kind = "NotFound"
         /\ Store' = Store
         /\ Count' = Count
         /\ Get(m.id)' = <<>>]_vars

\* C6 witness: the relational backend, holding another record, answered
\* NotFound to an update of an absent id.
C6_Witness ==
  /\ backend = "postgres"
  /\ last.op = "update" /\ last.res.kind = "NotFound"
  /\ ~Live(last.model.id)
  /\ Count = 1

\* C7: update of an existing record whose new key on a unique index is held
\* by a different live record fails with UniqueViolation and leaves the
\* store as before: get(id) is the old document and the record's old index
\* entries on every index are still present.
C7_UpdateUniqueConflict ==
  /\ [][\A m \in Models :
          (last'.op = "update" /\ last'.model = m /\ Live(m.id) /\ KeyHeldByOther(m)) =>
            /\ last'.res.kind = "UniqueViolation"
            /\ last'.old = Get(m.id)
            /\ Store' = Store
            /\ Get(m.id)' = Get(m.id)]_vars
  /\ []((last.op = "update" /\ last.res.kind = "UniqueViolation" /\ last.old # <<>>) =>
          /\ Get(last.model.id) = last.old
          /\ \A k \in 1..Len(definitions) :
               HasEntry(k, last.model.id, last.old[1]))

\* C7 witness: an update that also renames the record was refused with
\* UniqueViolation and the old document is still stored.
C7_Witness ==
  /\ last.op = "update" /\ last.res.kind = "UniqueViolation"
  /\ last.old # <<>>
  /\ last.old[1].name # last.model.name
  /\ Get(last.model.id) = last.old

\* C8: after a successful update that changes the value of an index of
\* record r from A to B, find_by_index(index, A) no longer contains r (and
\* is empty when no other record has A) and find_by_index(index, B) contains
\* r exactly once, with the new document (and is exactly [r] when no other
\* record has B).
C8_UpdateMovesIndexEntry ==
  (last.op = "update" /\ last.res.kind = "Ok" /\ last.old # <<>>) =>
    \A k \in 1..Len(definitions) :
      LET sel == definitions[k].name
          new == last.model
          A == Extract(definitions[k], last.old[1])[1]
          B == Extract(definitions[k], new)[1]
          atA == FindByIndex(sel, A)
          atB == FindByIndex(sel, B)
          Others(key) == {j \in Ids : j # new.id /\ Live(j)
                                      /\ Extract(definitions[k], Get(j)[1])[1] = key}
      IN A # B =>
           /\ atA.res.kind = "Ok" /\ atB.res.kind = "Ok"
           /\ \A doc \in DOMAIN atA.found : doc.id # new.id
           /\ Others(A) = {} => atA.found = EmptyBag
           /\ CopiesIn(new, atB.found) = 1
           /\ \A doc \in DOMAIN atB.found : doc.id = new.id => doc = new
           /\ Others(B) = {} => atB.found = SetToBag({new})

\* C8 witness: a record was renamed by a successful update while another
\* live record keeps the old name.
C8_Witness ==
  /\ last.op = "update" /\ last.res.kind = "Ok"
  /\ last.old # <<>>
  /\ last.old[1].name # last.model.name
  /\ \E j \in Ids : j # last.model.id /\ Live(j) /\ Get(j)[1].name = last.old[1].name

\* C9: after a successful delete(id), get(id) is None and no
\* find_by_unique_index or find_by_index call, on any declared index and any
\* key, returns the deleted record, until a record with that id is inserted
\* again. Stated as: no lookup returns a record that get does not return; a
\* successful delete makes get(id) None; and get(id) only leaves None by a
\* successful insert of that id.
C9_DeleteHidesRecord ==
  /\ [](\A id \in Ids : Get(id) = <<>> => ~ReturnedByFind(id))
  /\ [][\A id \in Ids :
          /\ (last'.op = "delete" /\ last'.model.id = id /\ last'.res.kind = "Ok") =>
               Get(id)' = <<>>
          /\ (Get(id) = <<>> /\ Get(id)' # <<>>) =>
               (last'.op = "insert" /\ last'.model.id = id /\ last'.res.kind = "Ok")]_vars

\* C9 witness: a record was deleted while another live record shares its
\* name, so lookups by that name still return something.
C9_Witness ==
  /\ last.op = "delete" /\ last.res.kind = "Ok"
  /\ last.old # <<>>
  /\ ~Live(last.model.id)
  /\ \E j \in Ids : Live(j) /\ Get(j)[1].name = last.old[1].name

\* C10: delete of an id that is not present fails with NotFound and leaves
\* every record and every index entry unchanged, on either backend.
C10_DeleteMissing ==
  [][\A id \in Ids :
       (last'.op = "delete" /\ last'.model.id = id /\ ~Live(id)) =>
         /\ last'.res.kind = "NotFound"
         /\ Store' = Store]_vars

\* C10 witness: the in-memory backend, holding a record, answered NotFound
\* to a delete of an absent id.
C10_Witness ==
  /\ backend = "mock"
  /\ last.op = "delete" /\ last.res.kind = "NotFound"
  /\ ~Live(last.model.id)
  /\ Count = 1

\* A successful call that writes record id.
Wrote(c, id) ==
  /\ c.op \in {"insert", "update", "delete"}
  /\ c.res.kind = "Ok"
  /\ c.model.id = id

\* C11: after insert(m) succeeds get(m.id) returns exactly m, and after a
\* successful update(m') exactly m'; no other step changes what get(id)
\* returns than a successful insert, update or delete of that id (calls on
\* other ids and failed calls on this id leave it; clear(), the in-memory
\* backend's reset, empties the store); get of an id never inserted, or
\* deleted, returns None.
C11_GetReturnsStored ==
  /\ [][\A id \in Ids :
          /\ (last'.op \in {"insert", "update"} /\ Wrote(last', id)) =>
               Get(id)' = <<last'.model>>
          /\ (last'.op = "delete" /\ Wrote(last', id)) => Get(id)' = <<>>
          /\ (~Wrote(last', id) /\ last'.op # "clear") => Get(id)' = Get(id)]_vars
  /\ [](last.op = "new" => \A id \in Ids : Get(id) = <<>>)

\* C11 witness: an update that changed the stored document succeeded and get
\* returns the new document.
C11_Witness ==
  /\ last.op = "update" /\ last.res.kind = "Ok"
  /\ last.old # <<>> /\ last.old[1] # last.model
  /\ Get(last.model.id) = <<last.model>>

(***************************************************************************)
(* Derived operations of the Store trait, written once in terms of the      *)
(* primitive calls.                                                         *)
(***************************************************************************)

MaxBatch == 3

\* The id slices get_many is called with: repeated ids allowed.
Batches == UNION {[1..n -> Ids] : n \in 0..MaxBatch}

\* A loop that keeps only the records it finds.
RECURSIVE get_many_found(_)
get_many_found(ids) ==
  IF ids = <<>> THEN <<>>
  ELSE Get(Head(ids)) \o get_many_found(Tail(ids))

\* for id in ids { results.push(self.get(id).await?) }: one Option per id.
RECURSIVE get_many_loop(_, _)
get_many_loop(ids, results) ==
  IF ids = <<>> THEN results
  ELSE get_many_loop(Tail(ids), Append(results, Get(Head(ids))))

GetMany(ids) == get_many_loop(ids, <<>>)

\* C16: get_many(ids) has the length of ids and its i-th element is
\* get(ids[i]): input order kept, repeated ids allowed, None at the position
\* of an id with no record; the empty slice gives the empty list.
C16_GetManyPositional ==
  \A ids \in Batches :
    /\ Len(GetMany(ids)) = Len(ids)
    /\ \A i \in 1..Len(ids) : GetMany(ids)[i] = Get(ids[i])

\* C16 witness: a batch that repeats a stored id around a missing one.
C16_Witness ==
  \E a, b \in Ids :
    /\ Get(a) # <<>> /\ Get(b) = <<>>
    /\ GetMany(<<a, b, a>>) = <<Get(a), <<>>, Get(a)>>
    /\ GetMany(<<>>) = <<>>

\* A count that ignores the key: the size of the whole table.
count_by_index_total(selector, key) ==
  LET r == FindByIndex(selector, key)
  IN [res |-> r.res, n |-> IF r.res.kind = "Ok" THEN Count ELSE 0]

\* Ok(self.find_by_index(selector, key).await?.len() as i64)
CountByIndex(selector, key) ==
  LET r == FindByIndex(selector, key)
  IN IF r.res.kind # "Ok" THEN [res |-> r.res, n |-> 0]
     ELSE [res |-> Ok, n |-> BagCardinality(r.found)]

\* The live records whose key under the selector is the given one.
Matching(selector, key) ==
  {id \in Ids : /\ Live(id)
                /\ KeyOf(RegistryGet(selector), Get(id)[1]) = IndexValueToString(key)}

\* C19: for every declared selector and key, count_by_index(selector, key) is
\* the number of records find_by_index(selector, key) returns, 0 when no
\* record matches, and it fails with the error of find_by_index whenever
\* that fails.
C19_CountByIndex ==
  \A sel \in Selectors, key \in AllKeys :
    LET c == CountByIndex(sel, key)
        f == FindByIndex(sel, key)
    IN /\ c.res = f.res
       /\ f.res.kind = "Ok" =>
            /\ c.n = BagCardinality(f.found)
            /\ Matching(sel, key) = {} => c.n = 0

\* C19 witness: one key counts two records while another counts none.
C19_Witness ==
  \E sel \in Selectors, k1, k2 \in AllKeys :
    /\ CountByIndex(sel, k1) = [res |-> Ok, n |-> 2]
    /\ CountByIndex(sel, k2) = [res |-> Ok, n |-> 0]
    /\ Count = 2

(***************************************************************************)
(* list(limit, offset)                                                      *)
(***************************************************************************)

\* The orders in which a set of ids can be enumerated.
Perms(S) ==
  {f \in [1..Cardinality(S) -> S] : \A i, j \in 1..Cardinality(S) : i # j => f[i] # f[j]}

\* HashMap::values(): an arbitrary order, the same on every iteration of a
\* map that is not modified in between.
MockOrders == Perms(DOMAIN data)

\* "ORDER BY updated_at DESC": rows with equal updated_at come in any order,
\* chosen anew by each query.
PgOrders ==
  {o \in Perms(DOMAIN pg_main) :
     \A i, j \in 1..Len(o) : i < j => pg_updated_at[o[i]] >= pg_updated_at[o[j]]}

\* take(limit) applied before skip(offset).
TakeSkip(seq, limit, offset) ==
  SubSeq(seq, offset + 1, IF limit < Len(seq) THEN limit ELSE Len(seq))

\* .skip(offset).take(limit) / "LIMIT $1 OFFSET $2"
SkipTake(seq, limit, offset) ==
  SubSeq(seq, offset + 1, IF offset + limit < Len(seq) THEN offset + limit ELSE Len(seq))

\* MockDatabase::list, iterating the map in the given order.
MockList(order, limit, offset) ==
  LET ids == SkipTake(order, limit, offset)
  IN [res |-> Ok, found |-> [i \in 1..Len(ids) |-> data[ids[i]]]]

\* PostgresDatabase::list, the query ordering the rows in the given order.
PgList(order, limit, offset) ==
  LET ids == SkipTake(order, limit, offset)
  IN IF ~pg_schema THEN [res |-> Err("Database"), found |-> <<>>]
     ELSE [res |-> Ok, found |-> [i \in 1..Len(ids) |-> pg_main[ids[i]]]]

ListOrders == IF backend = "mock" THEN MockOrders ELSE PgOrders

List(order, limit, offset) ==
  IF backend = "mock" THEN MockList(order, limit, offset) ELSE PgList(order, limit, offset)

\* The limits and offsets a caller passes (u32).
Limits == 0..(NumIds + 1)

\* C18: list(limit, offset) on a store holding n records returns exactly
\* min(limit, max(0, n - offset)) records, all of them distinct live records:
\* a full page while enough records remain, a short last page, an empty list
\* when offset >= n or the store is empty.
C18_ListPageSize ==
  \A limit \in Limits, offset \in Limits, order \in ListOrders :
    LET r == List(order, limit, offset)
        rest == IF Count > offset THEN Count - offset ELSE 0
    IN r.res.kind = "Ok" =>
         /\ Len(r.found) = IF limit < rest THEN limit ELSE rest
         /\ \A i \in 1..Len(r.found) : Get(r.found[i].id) = <<r.found[i]>>
         /\ \A i, j \in 1..Len(r.found) : i # j => r.found[i].id # r.found[j].id

\* C18 witness: a store of two records gives a full page of one, a short
\* page of one and an empty page.
C18_Witness ==
  /\ Count = 2
  /\ \E order \in ListOrders :
       /\ List(order, 1, 0) = [res |-> Ok, found |-> <<Get(order[1])[1]>>]
       /\ List(order, 2, 1) = [res |-> Ok, found |-> <<Get(order[2])[1]>>]
       /\ List(order, 2, 2) = [res |-> Ok, found |-> <<>>]

\* The calls list(limit, 0), list(limit, limit), ... up to the first empty
\* page, the p-th call enumerating in orders[p]; the pages concatenated.
RECURSIVE Paging(_, _, _)
Paging(limit, orders, p) ==
  LET page == List(orders[p], limit, (p - 1) * limit).found
  IN IF page = <<>> \/ p = Len(orders) THEN page
     ELSE page \o Paging(limit, orders, p + 1)

\* The orders successive calls on an unmodified store may enumerate in: the
\* map's one order on every call, any admissible row order per query.
PageOrders ==
  LET calls == 1..(Count + 1)
  IN IF backend = "mock" THEN {[p \in calls |-> o] : o \in MockOrders}
     ELSE [calls -> PgOrders]

\* C17: on a store that is not modified during paging, for any limit >= 1,
\* the pages list(limit, 0), list(limit, limit), ... up to the first empty
\* page together hold every live record exactly once, also when several
\* records have equal updated_at.
C17_PagesCoverOnce ==
  (backend = "postgres" => pg_schema) =>
    \A limit \in Limits \ {0}, orders \in PageOrders :
      LET all == Paging(limit, orders, 1)
      IN \A id \in Ids :
           Cardinality({i \in 1..Len(all) : all[i].id = id}) = IF Live(id) THEN 1 ELSE 0

(***************************************************************************)
(* upsert                                                                   *)
(***************************************************************************)

\* Ok(true) after the insert branch, Ok(false) after the update branch.
UpsertOk(inserted) ==
  [kind |-> "Ok", index |-> "", value |-> <<IF inserted THEN "true" ELSE "false">>]

\* An upsert that never looks for the record: always the insert branch.
mock_upsert_blind(inner, model) ==
  LET r == mock_insert(inner, model)
  IN [inner |-> r.inner, res |-> IF r.res.kind # "Ok" THEN r.res ELSE UpsertOk(TRUE)]

\* Store::upsert over the in-memory backend: exists, then update or insert,
\* an error of either passed on by `?`.
mock_upsert(inner, model) ==
  LET exists == model.id \in DOMAIN inner.data
      r == IF exists THEN mock_update(inner, model) ELSE mock_insert(inner, model)
  IN [inner |-> r.inner, res |-> IF r.res.kind # "Ok" THEN r.res ELSE UpsertOk(~exists)]

\* Store::upsert over the relational backend.
pg_upsert(db, model) ==
  LET exists == model.id \in DOMAIN db.main
      r == IF exists THEN PgUpdateTx(db, model) ELSE PgInsertTx(db, model)
  IN [db |-> r.db, res |-> IF r.res.kind # "Ok" THEN r.res ELSE UpsertOk(~exists)]

MockUpsert(model) ==
  /\ backend = "mock"
  /\ LET r == mock_upsert(Inner, model)
     IN /\ data' = r.inner.data
        /\ indices' = r.inner.indices
        /\ last' = Call("upsert", model, r.res, MockGet(model.id))
  /\ UNCHANGED <<backend, sideVars, initialized, pgVars>>

PgUpsert(model) ==
  /\ backend = "postgres"
  /\ pg_schema
  /\ AllIdle
  /\ LET r == pg_upsert(Committed, model)
     IN /\ pg_main' = r.db.main
        /\ pg_idx' = r.db.idx
        /\ Clock(r.db.at, tx)
        /\ last' = Call("upsert", model, r.res, PgGet(model.id))
  /\ UNCHANGED <<backend, sideVars, mockVars, pg_schema>>

\* One caller at a time, using upsert besides the primitive calls.
NextUpsert ==
  \/ Next
  \/ \E m \in Models : MockUpsert(m)
  \/ \E m \in Models : PgUpsert(m)

SpecUpsert == Init /\ [][NextUpsert]_vars

\* id has exactly one entry on index k.
OneEntry(k, id) ==
  IF backend = "mock"
  THEN Cardinality(MockEntries(definitions[k].name, id)) = 1
  ELSE BagCardinality(PgEntries(definitions[k].name, id)) = 1

\* C20: with one caller at a time, upsert(m) inserts m and returns true when
\* no record with m.id exists, and updates the record and returns false when
\* one exists; after a successful upsert get(m.id) returns m and the index
\* entries of the record are those of m. The call fails only with the error
\* of the chosen insert or update (a unique key of m held by another
\* record), and then the store is unchanged.
C20_Upsert ==
  /\ [][last'.op = "upsert" =>
          LET m == last'.model
          IN /\ last'.res.kind = "Ok" <=> ~KeyHeldByOther(m)
             /\ last'.res.kind = "Ok" =>
                  /\ last'.res = UpsertOk(~Live(m.id))
                  /\ Get(last.model.id)' = <<m>>
             /\ last'.res.kind # "Ok" =>
                  /\ last'.res.kind = "UniqueViolation"
                  /\ Store' = Store]_vars
  /\ []((last.op = "upsert" /\ last.res.kind = "Ok") =>
          \A k \in 1..Len(definitions) :
            HasEntry(k, last.model.id, last.model) /\ OneEntry(k, last.model.id))

\* C20 witness: an upsert took the update branch, returned false, and changed
\* the name and the email of the stored record.
C20_Witness ==
  /\ last.op = "upsert" /\ last.res = UpsertOk(FALSE)
  /\ last.old # <<>>
  /\ last.old[1].name # last.model.name /\ last.old[1].email # last.model.email
  /\ Get(last.model.id) = <<last.model>>

(***************************************************************************)
(* The two backends side by side: one caller issues every call to an        *)
(* in-memory store and to a relational store.                               *)
(***************************************************************************)

\* A completed call with what each backend returned.
BothCall(op, m, res, pg, old) == [op |-> op, model |-> m, res |-> res, pg |-> pg, old |-> old]

\* Before initialize_schema the statements name tables that do not exist:
\* the sqlx error is mapped to DatabaseError::Database and nothing is written.
PgCall(r) == IF pg_schema THEN r ELSE [db |-> Committed, res |-> Err("Database")]

InitBoth ==
  /\ backend = "both"
  /\ data = EmptyMap
  /\ indices = EmptyMap
  /\ initialized = FALSE
  /\ pg_schema = FALSE
  /\ pg_main = EmptyMap
  /\ pg_idx = EmptyBag
  /\ pg_updated_at = EmptyMap
  /\ pg_now = 1
  /\ tx = [c \in Clients |-> IdleTx]
  /\ last = BothCall("new", NoModel, Ok, Ok, <<>>)
  /\ NoSide

BothInitializeSchema ==
  /\ backend = "both"
  /\ initialized' = TRUE
  /\ pg_schema' = TRUE
  /\ last' = BothCall("initialize_schema", NoModel, Ok, Ok, <<>>)
  /\ UNCHANGED <<backend, sideVars, data, indices, pg_main, pg_idx, pg_updated_at, pg_now, tx>>

\* The call leaves the in-memory store as in m and the relational one as in p.
BothWrite(op, model, m, p) ==
  /\ backend = "both"
  /\ data' = m.inner.data
  /\ indices' = m.inner.indices
  /\ pg_main' = p.db.main
  /\ pg_idx' = p.db.idx
  /\ Clock(p.db.at, tx)
  /\ last' = BothCall(op, model, m.res, p.res, MockGet(model.id))
  /\ UNCHANGED <<backend, sideVars, initialized, pg_schema>>

BothInsert(model) ==
  BothWrite("insert", model, mock_insert(Inner, model), PgCall(PgInsertTx(Committed, model)))

BothUpdate(model) ==
  BothWrite("update", model, mock_update(Inner, model), PgCall(PgUpdateTx(Committed, model)))

BothDelete(id) ==
  BothWrite("delete", IdOnly(id), mock_delete(Inner, id), PgCall(PgDeleteMainRow(Committed, id)))

NextBoth ==
  \/ BothInitializeSchema
  \/ \E m \in ConcModels : BothInsert(m)
  \/ \E m \in ConcModels : BothUpdate(m)
  \/ \E id \in Ids : BothDelete(id)

SpecBoth == InitBoth /\ [][NextBoth]_vars

\* A selector whose name no definition of the registry has.
AnySelectors == Selectors \cup {"missing"}

\* A relational read: its SELECT fails while the tables do not exist.
PgRead(value, none) ==
  IF pg_schema THEN [res |-> Ok, found |-> value]
  ELSE [res |-> Err("Database"), found |-> none]

SeqToSet(seq) == {seq[i] : i \in 1..Len(seq)}

\* get, exists, count, find_by_unique_index and find_by_index return the
\* same on both stores, find_by_index compared as sets of records.
SameReads ==
  /\ \A id \in Ids :
       /\ PgRead(PgGet(id), <<>>) = [res |-> Ok, found |-> MockGet(id)]
       /\ PgRead(id \in DOMAIN pg_main, FALSE) = [res |-> Ok, found |-> id \in DOMAIN data]
  /\ PgRead(PgCount, 0) = [res |-> Ok, found |-> MockCount]
  /\ \A sel \in AnySelectors, key \in AllKeys :
       LET mu == MockFindByUniqueIndex(sel, key)
           pu == PgFindByUniqueIndex(sel, key)
           mf == MockFindByIndex(sel, key)
           pf == PgFindByIndex(sel, key)
       IN /\ mu.res = pu.res /\ SeqToSet(mu.found) = pu.found
          /\ mf.res = pf.res /\ SeqToSet(mf.found) = DOMAIN pf.found

\* The relational tables exist and both stores hold the same documents.
Aligned == pg_schema /\ data = pg_main

CanRead_always(c) == TRUE

\* inner.read(): granted while no caller holds the write lock.
CanRead(c) == \A d \in Clients \ {c} : tx[d].pc \in {"idle", "read"}

\* inner.write(): granted while no caller holds the lock.
CanWrite(c) == \A d \in Clients \ {c} : tx[d].pc = "idle"

\* A call holding the lock; snap is the store as it was when the lock was taken.
Held(pc, op, model, k, snap) ==
  [pc |-> pc, op |-> op, model |-> model, k |-> k, now |-> 0, snap |-> snap]

\* let mut inner = self.inner.write().unwrap()
MockLockWrite(c, op, model) ==
  /\ backend = "mock"
  /\ tx[c].pc = "idle"
  /\ CanWrite(c)
  /\ tx' = [tx EXCEPT ![c] = Held("check", op, model, 0, Inner)]
  /\ UNCHANGED <<backend, sideVars, mockVars, pg_schema, pg_main, pg_idx, pg_updated_at, pg_now, last>>

\* The contains_key test and check_unique_violations; an early return drops
\* the guard.
MockCheck(c) ==
  LET t == tx[c]
      present == t.model.id \in DOMAIN data
      res == IF t.op = "insert"
             THEN IF present THEN Err("Database")
                  ELSE check_unique_violations(Inner, t.model, NoId)
             ELSE IF ~present THEN Err("NotFound")
             ELSE IF t.op = "update"
             THEN check_unique_violations(Inner, t.model, t.model.id)
             ELSE Ok
  IN /\ backend = "mock"
     /\ t.pc = "check"
     /\ tx' = [tx EXCEPT ![c] =
                 IF res.kind # "Ok" THEN IdleTx
                 ELSE [t EXCEPT !.pc = IF t.op = "update" THEN "del" ELSE "data"]]
     /\ UNCHANGED <<backend, sideVars, mockVars, pg_schema, pg_main, pg_idx, pg_updated_at, pg_now, last>>

\* inner.data.insert(model.id(), model.clone()) / inner.data.remove(&id)
MockStepData(c) ==
  LET t == tx[c]
  IN /\ backend = "mock"
     /\ t.pc = "data"
     /\ data' = IF t.op = "delete" THEN MapRemove(data, t.model.id)
                ELSE MapPut(data, t.model.id, t.model)
     /\ tx' = [tx EXCEPT ![c] = IF t.op = "delete" THEN [t EXCEPT !.pc = "del"]
                                 ELSE [t EXCEPT !.pc = "idx", !.k = 1]]
     /\ UNCHANGED <<backend, sideVars, indices, initialized, pg_schema, pg_main, pg_idx,
                    pg_updated_at, pg_now, last>>

\* self.delete_indices_inner(&mut inner, id)
MockStepDeleteIndices(c) ==
  LET t == tx[c]
  IN /\ backend = "mock"
     /\ t.pc = "del"
     /\ indices' = delete_indices_inner(indices, t.model.id)
     /\ tx' = [tx EXCEPT ![c].pc = IF t.op = "update" THEN "data" ELSE "ret"]
     /\ UNCHANGED <<backend, sideVars, data, initialized, pg_schema, pg_main, pg_idx,
                    pg_updated_at, pg_now, last>>

\* insert_indices_inner: the push of the entry of definition k.
MockStepInsertIndex(c) ==
  LET t == tx[c]
      key == <<definitions[t.k].name, KeyOf(t.k, t.model)>>
      old == IF key \in DOMAIN indices THEN indices[key] ELSE <<>>
  IN /\ backend = "mock"
     /\ t.pc = "idx"
     /\ indices' = [b \in DOMAIN indices \cup {key} |->
                      IF b = key THEN Append(old, t.model.id) ELSE indices[b]]
     /\ tx' = [tx EXCEPT ![c] = IF t.k = Len(definitions) THEN [t EXCEPT !.pc = "ret"]
                                 ELSE [t EXCEPT !.k = t.k + 1]]
     /\ UNCHANGED <<backend, sideVars, data, initialized, pg_schema, pg_main, pg_idx,
                    pg_updated_at, pg_now, last>>

\* Ok(()): the call returns and the guard is dropped.
MockUnlock(c) ==
  LET t == tx[c]
  IN /\ backend = "mock"
     /\ t.pc = "ret"
     /\ tx' = [tx EXCEPT ![c] = IdleTx]
     /\ UNCHANGED <<backend, sideVars, mockVars, pg_schema, pg_main, pg_idx, pg_updated_at, pg_now, last>>

\* let inner = self.inner.read().unwrap(): get, find_by_unique_index,
\* find_by_index, list, count and exists read the store under the read lock.
MockLockRead(c) ==
  /\ backend = "mock"
  /\ tx[c].pc = "idle"
  /\ CanRead(c)
  /\ tx' = [tx EXCEPT ![c] = Held("read", "read", NoModel, 0, Inner)]
  /\ UNCHANGED <<backend, sideVars, mockVars, pg_schema, pg_main, pg_idx, pg_updated_at, pg_now, last>>

\* The read returns and drops its guard.
MockUnlockRead(c) ==
  /\ backend = "mock"
  /\ tx[c].pc = "read"
  /\ tx' = [tx EXCEPT ![c] = IdleTx]
  /\ UNCHANGED <<backend, sideVars, mockVars, pg_schema, pg_main, pg_idx, pg_updated_at, pg_now, last>>

MockStepsNext ==
  \/ MockInitializeSchema
  \/ \E c \in Clients, m \in ConcModels : MockLockWrite(c, "insert", m)
  \/ \E c \in Clients, m \in ConcModels : MockLockWrite(c, "update", m)
  \/ \E c \in Clients, id \in Ids : MockLockWrite(c, "delete", IdOnly(id))
  \/ \E c \in Clients : MockCheck(c)
  \/ \E c \in Clients : MockStepData(c)
  \/ \E c \in Clients : MockStepDeleteIndices(c)
  \/ \E c \in Clients : MockStepInsertIndex(c)
  \/ \E c \in Clients : MockUnlock(c)
  \/ \E c \in Clients : MockLockRead(c)
  \/ \E c \in Clients : MockUnlockRead(c)

\* Concurrent callers, statement by statement, on either backend.
NextSteps == MockStepsNext \/ PgConcNext

SpecSteps == Init /\ [][NextSteps]_vars

\* The positions at which record id is filed under index `name`.
EntriesOf(inner, name, id) ==
  {p \in UNION {{<<b, i>> : i \in 1..Len(inner.indices[b])} : b \in DOMAIN inner.indices} :
     p[1][1] = name /\ inner.indices[p[1]][p[2]] = id}

\* No write is half done: every record of the primary map has exactly one
\* entry per index, under the key of its document, and no other id has any.
Whole(inner) ==
  \A id \in Ids, k \in 1..Len(definitions) :
    LET e == EntriesOf(inner, definitions[k].name, id)
    IN IF id \in DOMAIN inner.data
       THEN /\ Cardinality(e) = 1
            /\ \A p \in e : p[1][2] = KeyOf(k, inner.data[id])
       ELSE e = {}

\* The caller holds the write lock.
Writing(t) == t.pc \notin {"idle", "read"}

\* What the call does to the store it found when it took the lock.
Effect(t) ==
  IF t.op = "insert" THEN mock_insert(t.snap, t.model)
  ELSE IF t.op = "update" THEN mock_update(t.snap, t.model)
  ELSE mock_delete(t.snap, t.model.id)

\* C12: in-memory backend, concurrent callers. A caller that holds the read
\* lock (get, find_by_unique_index, find_by_index, list, count, exists) sees
\* a store in which no write is half done, and the store does not change
\* while it reads; when a writer releases the lock the store is what its
\* whole insert, update or delete makes of the store it found when it took
\* the lock; and the store changes only in steps of the one caller holding
\* the write lock, all other callers holding nothing.
C12_WritesAtomic ==
  /\ [](backend = "mock" =>
          \A c \in Clients :
            tx[c].pc = "read" => (Whole(Inner) /\ Inner = tx[c].snap))
  /\ [][backend = "mock" =>
          \A c \in Clients :
            (Writing(tx[c]) /\ tx'[c].pc = "idle") => Inner' = Effect(tx[c]).inner]_vars
  /\ [][(backend = "mock" /\ Inner' # Inner) =>
          \E c \in Clients :
            /\ Writing(tx[c])
            /\ \A d \in Clients \ {c} : tx[d].pc = "idle" /\ tx'[d] = tx[d]]_vars

\* C12 witness: an update has rewritten the primary map and not yet pushed
\* all its index entries; the other caller holds no lock.
C12_Witness ==
  /\ backend = "mock"
  /\ \E c \in Clients :
       /\ tx[c].op = "update" /\ tx[c].pc = "idx" /\ tx[c].k = 2
       /\ \A d \in Clients \ {c} : tx[d].pc = "idle"
  /\ MockCount = 2
  /\ ~Whole(Inner)

\* The committed tables hold no half-written record: every row of the main
\* table has exactly one row per side table, under the key of its document,
\* and no side-table row references an absent id.
PgWhole ==
  \A id \in Ids, k \in 1..Len(definitions) :
    LET rows == PgEntries(definitions[k].name, id)
    IN IF id \in DOMAIN pg_main
       THEN rows = SetToBag({Row(definitions[k].name, KeyOf(k, pg_main[id]), id)})
       ELSE rows = EmptyBag

\* The whole call of an open transaction, run on the committed tables.
PgEffect(t) ==
  IF t.op = "insert" THEN PgInsertTx(Committed, t.model) ELSE PgUpdateTx(Committed, t.model)

\* C14: all-or-nothing writes. Relational backend: the statements of an open
\* insert or update transaction leave the committed tables alone; when the
\* transaction ends, by a failed statement, by the drop of the call or by
\* commit, the committed tables are either unchanged or, at commit only,
\* what the whole call makes of them; and the committed tables never hold a
\* half-written record. In-memory backend: a call that took the write lock
\* releases it with the store either as it found it or as the whole call
\* makes it, nothing ends a call between its first and its last mutation,
\* and no reader sees a half-written store.
C14_AllOrNothing ==
  /\ [][backend = "postgres" =>
          \A c \in Clients :
            /\ (tx'[c] # tx[c] /\ tx'[c].pc # "idle") => Store' = Store
            /\ (tx[c].pc # "idle" /\ tx'[c].pc = "idle") =>
                 \/ Store' = Store
                 \/ /\ tx[c].pc = "commit"
                    /\ PgEffect(tx[c]).res.kind = "Ok"
                    /\ pg_main' = PgEffect(tx[c]).db.main
                    /\ pg_idx' = PgEffect(tx[c]).db.idx]_vars
  /\ [](backend = "postgres" => PgWhole)
  /\ [][backend = "mock" =>
          \A c \in Clients :
            (Writing(tx[c]) /\ tx'[c].pc = "idle") =>
              \/ tx[c].pc = "check" /\ Inner' = tx[c].snap
              \/ /\ tx[c].pc = "ret"
                 /\ Effect(tx[c]).res.kind = "Ok"
                 /\ Inner' = Effect(tx[c]).inner]_vars
  /\ [](backend = "mock" => \A c \in Clients : tx[c].pc = "read" => Whole(Inner))

\* C14 witness: an insert has written its main row and two of its side-table
\* rows inside its transaction; the committed tables, which hold another
\* record, show nothing of it.
C14_Witness ==
  /\ backend = "postgres"
  /\ \E c \in Clients :
       /\ tx[c].op = "insert" /\ tx[c].pc = "idx" /\ tx[c].k = 3
       /\ tx[c].model.id \notin DOMAIN pg_main
       /\ \A r \in DOMAIN pg_idx : r.record_id # tx[c].model.id
  /\ PgCount = 1

(***************************************************************************)
(* test_concurrent_operations: one task per client inserts one record into  *)
(* a shared, initially empty store; the records have pairwise distinct ids  *)
(* and pairwise distinct unique keys.                                       *)
(***************************************************************************)

\* The id of the record task c inserts.
TaskId(c) == IF c = "c1" THEN 1 ELSE 2

\* Task c may insert m: its id is the task's, it has not inserted yet, and
\* no other task's record has a unique key of m.
TaskModel(c, m) ==
  /\ m.id = TaskId(c)
  /\ ~Live(m.id)
  /\ ~KeyHeldByOther(m)
  /\ \A d \in Clients \ {c} :
       tx[d].pc # "idle" =>
         \A k \in UniqueDefs : KeyOf(k, tx[d].model) # KeyOf(k, m)

\* The steps of task c's insert.
TaskStep(c) ==
  \/ MockCheck(c)
  \/ MockStepData(c)
  \/ MockStepInsertIndex(c)
  \/ MockUnlock(c)
  \/ PgStmtMain(c)
  \/ PgStmtInsertIndex(c)
  \/ PgCommit(c)

NextInserts ==
  \/ MockInitializeSchema
  \/ PgInitializeSchema
  \/ \E c \in Clients, m \in ConcModels : TaskModel(c, m) /\ MockLockWrite(c, "insert", m)
  \/ \E c \in Clients, m \in ConcModels : TaskModel(c, m) /\ PgBegin(c, "insert", m)
  \/ \E c \in Clients : TaskStep(c)

SpecInserts == Init /\ [][NextInserts]_vars

\* C13: when the tasks concurrently insert records with pairwise distinct
\* ids and pairwise distinct unique keys into one shared store, every insert
\* succeeds whatever the schedule: a task's call that has the lock or its
\* transaction open can take its next step without waiting for another task,
\* every call that ends has inserted its record, and a record once inserted
\* stays as it is; count() is the number of tasks whose record is in the
\* store, so once all have completed count() is the number of tasks and
\* every record is retrievable by get.
C13_ConcurrentInserts ==
  /\ [][\A c \in Clients, m \in ConcModels :
          (tx[c].pc # "idle" /\ tx[c].model = m /\ tx'[c].pc = "idle") =>
            Get(m.id)' = <<m>>]_vars
  /\ [][\A id \in Ids : Get(id) # <<>> => Get(id)' = Get(id)]_vars
  /\ [](\A c \in Clients : tx[c].pc # "idle" => ENABLED TaskStep(c))
  /\ [](Count = Cardinality({c \in Clients : Live(TaskId(c))}))
  /\ []((AllIdle /\ \A c \in Clients : Live(TaskId(c))) => Count = Cardinality(Clients))

\* C13 witness: both tasks have completed; their records share the name, a
\* non-unique key.
C13_Witness ==
  /\ AllIdle
  /\ \A c \in Clients : Live(TaskId(c))
  /\ Count = 2
  /\ Get(1)[1].name = Get(2)[1].name

(***************************************************************************)
(* Reads as calls of their own, and delete_and_return: every call of one    *)
(* caller at a time is a step that records what it returned in `last`.      *)
(***************************************************************************)

\* A completed read: its arguments and the value it returned.
ReadCall(op, id, selector, key, res, found) ==
  [op |-> op, model |-> IdOnly(id), res |-> res, old |-> <<>>,
   selector |-> selector, key |-> key, found |-> found]

\* The rows "... WHERE i.index_key = $1 ORDER BY m.updated_at DESC" may
\* return, as sequences of <<record id, copy of the side row>>: rows with
\* equal updated_at in any order.
PgFindByIndexOrders(selector, key) ==
  LET rows == Filter(pg_idx, LAMBDA r : /\ r.index = selector
                                        /\ r.index_key = IndexValueToString(key)
                                        /\ r.record_id \in DOMAIN pg_main)
      hits == UNION {{<<r.record_id, n>> : n \in 1..rows[r]} : r \in DOMAIN rows}
  IN {o \in Perms(hits) :
        \A i, j \in 1..Len(o) : i < j => pg_updated_at[o[i][1]] >= pg_updated_at[o[j][1]]}

\* PostgresDatabase::find_by_index when the query returns its rows in order o.
PgFindByIndexRows(selector, key, o) ==
  IF RegistryGet(selector) = 0 THEN [res |-> Err("IndexNotFound"), found |-> <<>>]
  ELSE IF ~pg_schema THEN [res |-> Err("Database"), found |-> <<>>]
  ELSE [res |-> Ok, found |-> [i \in 1..Len(o) |-> pg_main[o[i][1]]]]

\* The values find_by_index(selector, key) may return, as lists.
FindByIndexResults(selector, key) ==
  IF backend = "mock" THEN {MockFindByIndex(selector, key)}
  ELSE {PgFindByIndexRows(selector, key, o) : o \in PgFindByIndexOrders(selector, key)}

\* The values find_by_unique_index(selector, key) may return: fetch_optional
\* gives a row of the query, None when it has none.
FindByUniqueIndexResults(selector, key) ==
  IF backend = "mock" THEN {MockFindByUniqueIndex(selector, key)}
  ELSE LET r == PgFindByUniqueIndex(selector, key)
       IN IF r.found = {} THEN {[res |-> r.res, found |-> <<>>]}
          ELSE {[res |-> Ok, found |-> <<d>>] : d \in r.found}

\* The step of a read on either backend: nothing but `last` changes.
\* A read that empties the maps on its way.
MockReadStep_clear(call) ==
  /\ backend = "mock"
  /\ last' = call
  /\ data' = EmptyMap
  /\ indices' = EmptyMap
  /\ UNCHANGED <<backend, sideVars, initialized, pgVars>>

MockReadStep(call) ==
  /\ backend = "mock"
  /\ last' = call
  /\ UNCHANGED <<backend, sideVars, mockVars, pgVars>>

PgReadStep(call) ==
  /\ backend = "postgres"
  /\ last' = call
  /\ UNCHANGED <<backend, sideVars, mockVars, pgVars>>

MockGetCall(id) ==
  MockReadStep(ReadCall("get", id, "", <<>>, Ok, MockGet(id)))

PgGetCall(id) ==
  LET r == PgRead(PgGet(id), <<>>)
  IN PgReadStep(ReadCall("get", id, "", <<>>, r.res, r.found))

MockExistsCall(id) ==
  MockReadStep(ReadCall("exists", id, "", <<>>, Ok, id \in DOMAIN data))

PgExistsCall(id) ==
  LET r == PgRead(id \in DOMAIN pg_main, FALSE)
  IN PgReadStep(ReadCall("exists", id, "", <<>>, r.res, r.found))

MockCountCall ==
  MockReadStep(ReadCall("count", NoId, "", <<>>, Ok, MockCount))

PgCountCall ==
  LET r == PgRead(PgCount, 0)
  IN PgReadStep(ReadCall("count", NoId, "", <<>>, r.res, r.found))

MockFindByUniqueIndexCall(selector, key) ==
  LET r == MockFindByUniqueIndex(selector, key)
  IN MockReadStep(ReadCall("find_by_unique_index", NoId, selector, key, r.res, r.found))

PgFindByUniqueIndexCall(selector, key) ==
  \E r \in FindByUniqueIndexResults(selector, key) :
    PgReadStep(ReadCall("find_by_unique_index", NoId, selector, key, r.res, r.found))

MockFindByIndexCall(selector, key) ==
  LET r == MockFindByIndex(selector, key)
  IN MockReadStep(ReadCall("find_by_index", NoId, selector, key, r.res, r.found))

PgFindByIndexCall(selector, key) ==
  \E r \in FindByIndexResults(selector, key) :
    PgReadStep(ReadCall("find_by_index", NoId, selector, key, r.res, r.found))

\* A delete_and_return that hands the record back and leaves it stored.
mock_delete_and_return_peek(inner, id) ==
  IF id \in DOMAIN inner.data
  THEN [inner |-> inner, res |-> Ok, found |-> <<inner.data[id]>>]
  ELSE [inner |-> inner, res |-> Err("NotFound"), found |-> <<>>]

\* let model = self.get_or_error(id).await?; self.delete(id).await?; Ok(model)
mock_delete_and_return(inner, id) ==
  IF id \notin DOMAIN inner.data
  THEN [inner |-> inner, res |-> Err("NotFound"), found |-> <<>>]
  ELSE LET d == mock_delete(inner, id)
       IN [inner |-> d.inner, res |-> d.res,
           found |-> IF d.res.kind = "Ok" THEN <<inner.data[id]>> ELSE <<>>]

pg_delete_and_return(db, id) ==
  IF id \notin DOMAIN db.main
  THEN [db |-> db, res |-> Err("NotFound"), found |-> <<>>]
  ELSE LET d == PgDeleteMainRow(db, id)
       IN [db |-> d.db, res |-> d.res,
           found |-> IF d.res.kind = "Ok" THEN <<db.main[id]>> ELSE <<>>]

MockDeleteAndReturn(id) ==
  /\ backend = "mock"
  /\ LET r == mock_delete_and_return(Inner, id)
     IN /\ data' = r.inner.data
        /\ indices' = r.inner.indices
        /\ last' = [ReadCall("delete_and_return", id, "", <<>>, r.res, r.found)
                      EXCEPT !.old = MockGet(id)]
  /\ UNCHANGED <<backend, sideVars, initialized, pgVars>>

PgDeleteAndReturn(id) ==
  /\ backend = "postgres"
  /\ pg_schema
  /\ AllIdle
  /\ LET r == pg_delete_and_return(Committed, id)
     IN /\ pg_main' = r.db.main
        /\ pg_idx' = r.db.idx
        /\ Clock(r.db.at, tx)
        /\ last' = [ReadCall("delete_and_return", id, "", <<>>, r.res, r.found)
                      EXCEPT !.old = PgGet(id)]
  /\ UNCHANGED <<backend, sideVars, mockVars, pg_schema>>

\* A find_one that takes the last match.
find_one_by_index_last(r) ==
  IF r.res.kind # "Ok" THEN [res |-> r.res, found |-> <<>>]
  ELSE [res |-> Ok, found |-> IF r.found = <<>> THEN <<>> ELSE <<r.found[Len(r.found)]>>]

\* let mut results = self.find_by_index(selector, key).await?;
\* Ok(results.drain(..).next()), r being what find_by_index returned.
FindOneByIndex(r) ==
  IF r.res.kind # "Ok" THEN [res |-> r.res, found |-> <<>>]
  ELSE [res |-> Ok, found |-> IF r.found = <<>> THEN <<>> ELSE <<Head(r.found)>>]

MockFindOneByIndexCall(selector, key) ==
  LET r == FindOneByIndex(MockFindByIndex(selector, key))
  IN MockReadStep(ReadCall("find_one_by_index", NoId, selector, key, r.res, r.found))

PgFindOneByIndexCall(selector, key) ==
  \E f \in FindByIndexResults(selector, key) :
    LET r == FindOneByIndex(f)
    IN PgReadStep(ReadCall("find_one_by_index", NoId, selector, key, r.res, r.found))

MockReads ==
  \/ \E id \in Ids : MockGetCall(id)
  \/ \E id \in Ids : MockExistsCall(id)
  \/ MockCountCall
  \/ \E sel \in AnySelectors, key \in AllKeys : MockFindByUniqueIndexCall(sel, key)
  \/ \E sel \in AnySelectors, key \in AllKeys : MockFindByIndexCall(sel, key)
  \/ \E sel \in AnySelectors, key \in AllKeys : MockFindOneByIndexCall(sel, key)

PgReads ==
  \/ \E id \in Ids : PgGetCall(id)
  \/ \E id \in Ids : PgExistsCall(id)
  \/ PgCountCall
  \/ \E sel \in AnySelectors, key \in AllKeys : PgFindByUniqueIndexCall(sel, key)
  \/ \E sel \in AnySelectors, key \in AllKeys : PgFindByIndexCall(sel, key)
  \/ \E sel \in AnySelectors, key \in AllKeys : PgFindOneByIndexCall(sel, key)

NextCalls ==
  \/ Next
  \/ MockReads
  \/ PgReads
  \/ \E id \in Ids : MockDeleteAndReturn(id)
  \/ \E id \in Ids : PgDeleteAndReturn(id)

SpecCalls == Init /\ [][NextCalls]_vars

\* The write calls and the reads.
WriteOps == {"insert", "update", "delete", "delete_and_return", "clear", "initialize_schema"}
ReadOps ==
  {"get", "exists", "count", "find_by_unique_index", "find_by_index", "find_one_by_index"}

\* What a call may not touch when it fails or only reads.
Tables == <<data, indices, initialized, pg_schema, pg_main, pg_idx, pg_updated_at>>

\* The selector names a declared index / a declared non-unique index.
Declared(sel) == \E k \in 1..Len(definitions) : definitions[k].name = sel
DeclaredNonUnique(sel) ==
  \E k \in 1..Len(definitions) : definitions[k].name = sel /\ ~definitions[k].unique

\* C21: find_by_unique_index fails with IndexNotFound for a selector that
\* names no declared index and otherwise with IndexNotUnique for a non-unique
\* index, whatever the key and the store's content; find_by_index fails with
\* IndexNotFound for an undeclared selector and never refuses a declared
\* index, unique or not (it returns Ok once the tables exist); a lookup that
\* fails this way leaves the store as it was.
C21_IndexValidation ==
  /\ [](\A sel \in AnySelectors, key \in AllKeys :
          /\ \A u \in FindByUniqueIndexResults(sel, key) :
               /\ ~Declared(sel) => u.res = Err("IndexNotFound")
               /\ DeclaredNonUnique(sel) => u.res = Err("IndexNotUnique")
          /\ \A f \in FindByIndexResults(sel, key) :
               /\ ~Declared(sel) => f.res = Err("IndexNotFound")
               /\ Declared(sel) =>
                    /\ f.res.kind \notin {"IndexNotFound", "IndexNotUnique"}
                    /\ (backend = "mock" \/ pg_schema) => f.res = Ok)
  /\ [][last'.op \in {"find_by_unique_index", "find_by_index"} =>
          /\ ~Declared(last'.selector) => last'.res = Err("IndexNotFound")
          /\ (last'.op = "find_by_unique_index" /\ DeclaredNonUnique(last'.selector)) =>
               last'.res = Err("IndexNotUnique")
          /\ last'.res.kind \in {"IndexNotFound", "IndexNotUnique"} => Tables' = Tables]_vars

\* C21 witness: on a store of two records a unique lookup on the non-unique
\* index `name`, with the name of a stored record as key, was refused.
C21_Witness ==
  /\ last.op = "find_by_unique_index"
  /\ last.selector = "name"
  /\ last.res = Err("IndexNotUnique")
  /\ Count = 2
  /\ \E id \in Ids : Live(id) /\ last.key = IndexValueNewSingle(Get(id)[1].name)

\* The index value the extractor of the selector's definition produces for
\* document doc: what a caller passes to look doc up.
LookupKey(sel, doc) == Extract(definitions[RegistryGet(sel)], doc)[1]

\* The live documents whose index value under the selector is the key.
Holders(sel, key) ==
  {doc \in UNION {SeqToSet(Get(id)) : id \in Ids} : LookupKey(sel, doc) = key}

\* C22: for every declared index, composite or single-field, unique or not,
\* and every live record r, find_by_index with the index value the extractor
\* yields for r returns a list that contains r, and on a unique index
\* find_by_unique_index with that value returns exactly r; with a key no live
\* record has, find_by_index returns the empty list and find_by_unique_index
\* None. A completed find_by_index returned exactly the live records that
\* have the key.
C22_LookupFindsStored ==
  /\ []((backend = "mock" \/ pg_schema) =>
          \A sel \in Selectors, key \in AllKeys :
            /\ \A f \in FindByIndexResults(sel, key) :
                 /\ f.res = Ok
                 /\ SeqToSet(f.found) = Holders(sel, key)
            /\ ~DeclaredNonUnique(sel) =>
                 \A u \in FindByUniqueIndexResults(sel, key) :
                   /\ u.res = Ok
                   /\ \A doc \in Holders(sel, key) : u.found = <<doc>>
                   /\ Holders(sel, key) = {} => u.found = <<>>)
  /\ [][(last'.op = "find_by_index" /\ last'.res = Ok) =>
          SeqToSet(last'.found) = Holders(last'.selector, last'.key)]_vars

\* C22 witness: find_by_index on the composite index name_age returned both
\* records of the store, which share name and age, and the unique lookup of
\* one record's email returns that record.
C22_Witness ==
  /\ last.op = "find_by_index" /\ last.selector = "name_age" /\ last.res = Ok
  /\ Len(last.found) = 2 /\ last.found[1] # last.found[2]
  /\ \A i \in 1..2 : LookupKey("name_age", last.found[i]) = last.key
  /\ \E u \in FindByUniqueIndexResults("email", LookupKey("email", last.found[1])) :
       u.found = <<last.found[1]>>

\* C23: find_one_by_index(selector, key) returns the error of find_by_index
\* when that fails, else Some(first element of the list find_by_index
\* returned), which is one of the matching records, when the list is
\* non-empty, and None exactly when it is empty. Which match comes first is
\* not fixed: on the relational backend every match with the latest
\* updated_at can be the one returned.
C23_FindOneByIndex ==
  /\ [](\A sel \in AnySelectors, key \in AllKeys :
          /\ \A f \in FindByIndexResults(sel, key) :
               LET o == FindOneByIndex(f)
               IN /\ f.res # Ok => (o.res = f.res /\ o.found = <<>>)
                  /\ f.res = Ok =>
                       /\ o.res = Ok
                       /\ (o.found = <<>>) <=> (f.found = <<>>)
                       /\ f.found # <<>> =>
                            /\ o.found = <<f.found[1]>>
                            /\ o.found[1] \in Holders(sel, key)
          /\ (backend = "postgres" /\ pg_schema /\ Declared(sel)) =>
               \A doc \in Holders(sel, key) :
                 (\A d \in Holders(sel, key) : pg_updated_at[d.id] <= pg_updated_at[doc.id]) =>
                   \E f \in FindByIndexResults(sel, key) : FindOneByIndex(f).found = <<doc>>)
  /\ [][(last'.op = "find_one_by_index" /\ last'.res = Ok) =>
          /\ last'.found # <<>> => last'.found[1] \in Holders(last'.selector, last'.key)
          /\ last'.found = <<>> => Holders(last'.selector, last'.key) = {}]_vars

\* C23 witness: find_one_by_index returned one of two matching records, and
\* another answer of find_by_index would have made it return the other.
C23_Witness ==
  /\ last.op = "find_one_by_index" /\ last.res = Ok /\ last.found # <<>>
  /\ Cardinality(Holders(last.selector, last.key)) = 2
  /\ \E f \in FindByIndexResults(last.selector, last.key) :
       FindOneByIndex(f).found # last.found

\* C24: with no other caller writing, delete_and_return(id) of an existing
\* record succeeds and returns the stored document, and afterwards the
\* record is gone (exists(id) is false, get(id) is None) with every index
\* entry of it; on a missing id it fails with NotFound and leaves the store
\* unchanged.
C24_DeleteAndReturn ==
  /\ [][last'.op = "delete_and_return" =>
          LET id == last'.model.id
          IN /\ Live(id) => (last'.res = Ok /\ last'.found = Get(id))
             /\ ~Live(id) => (last'.res = Err("NotFound") /\ last'.found = <<>>
                               /\ Tables' = Tables)]_vars
  /\ []((last.op = "delete_and_return" /\ last.res = Ok) =>
          /\ ~Live(last.model.id)
          /\ Get(last.model.id) = <<>>
          /\ NoEntriesFor(last.model.id)
          /\ ~ReturnedByFind(last.model.id))

\* C24 witness: delete_and_return took one of two records out of the store
\* and returned its document; the other record is still there.
C24_Witness ==
  /\ last.op = "delete_and_return" /\ last.res = Ok
  /\ last.found # <<>> /\ last.found[1].id = last.model.id
  /\ Count = 1 /\ ~Live(last.model.id)

NextOverlap == NextInserts \/ PgTick

SpecOverlap == Init /\ [][NextOverlap]_vars

\* Client c's insert or update commits in this step.
Commits(c) ==
  /\ tx[c].pc = "commit" /\ tx[c].op \in {"insert", "update"}
  /\ tx'[c].pc = "idle"
  /\ tx[c].model.id \in DOMAIN pg_main' /\ pg_main'[tx[c].model.id] = tx[c].model

\* No two records have the same updated_at.
DistinctTimes ==
  \A i, j \in DOMAIN pg_updated_at : i # j => pg_updated_at[i] # pg_updated_at[j]

\* C26: on the relational backend every record has an updated_at, set by
\* its insert and reset by each successful update, and list and
\* find_by_index return the records in non-increasing order of it; so when
\* an insert or update of a record completes, list returns that record
\* first and find_by_index returns it before every other record it returns,
\* the last write of every other record having completed earlier. Stated
\* for the states in which all updated_at values differ, where the order of
\* the results is fully determined.
C26_UpdatedAtOrdering ==
  /\ [](\A id \in DOMAIN pg_main : id \in DOMAIN pg_updated_at)
  /\ [][\A c \in Clients : \A m \in ConcModels :
          (Commits(c) /\ tx[c].model = m /\ DistinctTimes') =>
            /\ \A o \in PgOrders' : o[1] = m.id
            /\ \A sel \in Selectors :
                 \A f \in FindByIndexResults(sel, LookupKey(sel, m))' :
                   f.found[1] = m]_vars

(***************************************************************************)
(* Composite keys on their own: an extractor hands segments to              *)
(* IndexValue::new and the resulting slice of values to format_index_key.   *)
(***************************************************************************)

\* The characters of the segments: a letter, the JSON punctuation and escape
\* character, and the delimiter of the join.
KeyChars == {"a", ",", "QUOTE", "BSLASH", "NUL"}

\* The segments: the empty string and the one-character strings.
Segments == {<<>>} \cup {<<c>> : c \in KeyChars}

\* What an extractor passes to one IndexValue::new: up to two segments.
SegmentLists ==
  {<<>>} \cup {<<s>> : s \in Segments} \cup {<<s, t>> : s \in Segments, t \in Segments}

MaxValues == 2

\* The slices an extractor returns, as the arguments of each IndexValue::new.
Slices == UNION {[1..n -> SegmentLists] : n \in 0..MaxValues}

\* The store is not in use.
NoStore ==
  /\ backend = "none"
  /\ registry = "User"
  /\ pending = [c \in Clients |-> NoPending]
  /\ data = EmptyMap
  /\ indices = EmptyMap
  /\ initialized = FALSE
  /\ pg_schema = FALSE
  /\ pg_main = EmptyMap
  /\ pg_idx = EmptyBag
  /\ pg_updated_at = EmptyMap
  /\ pg_now = 1
  /\ tx = [c \in Clients |-> IdleTx]
  /\ last = Call("new", NoModel, Ok, <<>>)

storeVars == <<backend, registry, mockVars, pgVars, last, pending>>

InitKeys ==
  /\ NoStore
  /\ keys \in [stage : {"input"}, input : Slices, values : {<<>>}, key : {<<>>}]
  /\ belt_inner = NoBelt
  /\ belt_count = 0
  /\ belt_out = <<>>
  /\ NoBlobs

\* The extractor builds its values: IndexValue::new on each list of segments.
ExtractValues ==
  /\ keys.stage = "input"
  /\ keys' = [keys EXCEPT !.stage = "values",
                          !.values = [i \in 1..Len(keys.input) |-> IndexValueNew(keys.input[i])]]
  /\ UNCHANGED <<storeVars, belt_inner, belt_count, belt_out, blobVars>>

\* format_index_key on the extracted values.
FormatIndexKey ==
  /\ keys.stage = "values"
  /\ keys' = [keys EXCEPT !.stage = "key", !.key = format_index_key(keys.values)]
  /\ UNCHANGED <<storeVars, belt_inner, belt_count, belt_out, blobVars>>

NextKeys == ExtractValues \/ FormatIndexKey

SpecKeys == InitKeys /\ [][NextKeys]_vars

\* The key of every slice.
KeyTable ==
  [vs \in Slices |-> format_index_key([i \in 1..Len(vs) |-> IndexValueNew(vs[i])])]

\* No two slices have the same key: equal keys come only from slices that
\* are equal element by element, a slice of one value never meeting a slice
\* of several.
KeysDistinct == Cardinality({KeyTable[vs] : vs \in Slices}) = Cardinality(Slices)

\* The formatted key is the key of its slice and of no other.
KeyInjective ==
  keys.stage = "key" => (KeysDistinct /\ KeyTable[keys.input] = keys.key)

\* The characters of string str.
CharsOf(str) == {str[i] : i \in 1..Len(str)}

\* C27 as stated: format_index_key is injective, and no segment of a value
\* that IndexValue::new produced contains the delimiter.
C27_KeyEncodingInjective_Original ==
  /\ KeyInjective
  /\ keys.stage \in {"values", "key"} =>
       \A i \in 1..Len(keys.values) : \A j \in 1..Len(keys.values[i]) :
         "NUL" \notin CharsOf(keys.values[i][j])

\* C27: format_index_key gives equal strings only for slices of values that
\* are equal element by element, in order, so a slice of one value never
\* collides with a slice of several, nor a value of one segment with a value
\* of several. IndexValue::new keeps its segments as given, the delimiter
\* included; it is the value's Display, the JSON text joined by
\* format_index_key, that never contains the delimiter.
C27_KeyEncodingInjective ==
  /\ KeyInjective
  /\ keys.stage \in {"values", "key"} =>
       \A i \in 1..Len(keys.values) :
         /\ keys.values[i] = keys.input[i]
         /\ "NUL" \notin CharsOf(IndexValueToString(keys.values[i]))
  /\ keys.stage = "key" =>
       Cardinality({n \in 1..Len(keys.key) : keys.key[n] = "NUL"}) =
         IF keys.values = <<>> THEN 0 ELSE Len(keys.values) - 1

\* C27 witness: the key of two values was formatted, one of them holding a
\* segment that is the delimiter itself.
C27_Witness ==
  /\ keys.stage = "key"
  /\ Len(keys.values) = 2
  /\ keys.values[1] = <<<<"NUL">>, <<>>>>
  /\ keys.values[2] = <<<<",">>>>

\* C28: count() is the number of live records: 0 on a new store, one more
\* after each successful insert, one less after each successful delete (or
\* delete_and_return), and the same after an update, after any failed call,
\* after initialize_schema and after any read; a completed count() returned
\* that number.
C28_CountTracksLiveRecords ==
  /\ [](last.op = "new" => Count = 0)
  /\ [](Count = Cardinality({id \in Ids : Get(id) # <<>>}))
  /\ [][/\ (last'.op = "insert" /\ last'.res = Ok) => Count' = Count + 1
        /\ (last'.op \in {"delete", "delete_and_return"} /\ last'.res = Ok) =>
             Count' = Count - 1
        /\ last'.op \in ({"update", "initialize_schema"} \cup ReadOps) => Count' = Count
        /\ (last'.op \in WriteOps \ {"clear"} /\ last'.res # Ok) => Count' = Count
        /\ (last'.op = "count" /\ last'.res = Ok) => last'.found = Count]_vars

\* C28 witness: count() returned 2 on a store that holds two records.
C28_Witness ==
  /\ last.op = "count" /\ last.res = Ok /\ last.found = 2
  /\ Cardinality({id \in Ids : Live(id)}) = 2

(***************************************************************************)
(* crates/belt: a Belt, the byte stream, and the Counters obtained from it. *)
(***************************************************************************)

\* The byte buffers: Bytes of length 0 to 2.
Buffers == {<<>>, <<0>>, <<1>>, <<0, 1>>}

\* Poll<Option<Result<Bytes, io::Error>>>
Pending == [kind |-> "Pending", bytes |-> <<>>]
ReadyNone == [kind |-> "None", bytes |-> <<>>]
ReadyErr == [kind |-> "Err", bytes |-> <<>>]
ReadyOk(b) == [kind |-> "Ok", bytes |-> b]

\* What a poll of the stream behind a Belt may return.
Polls == {Pending, ReadyNone, ReadyErr} \cup {ReadyOk(b) : b \in Buffers}

MaxChunks == 3
MaxPolls == 3

\* The streams Belt::new is given: what their successive polls return, and
\* Ready(None) from then on.
Streams == UNION {[1..n -> Polls] : n \in 0..MaxChunks}

\* Belt::new_from_bytes (and the From impls), Belt::empty, Belt::new.
NewFromBytes(input) ==
  [kind |-> "Static", bytes |-> <<input>>, stream |-> <<>>, source |-> <<input>>,
   dropped |-> FALSE]
Empty ==
  [kind |-> "Static", bytes |-> <<>>, stream |-> <<>>, source |-> <<>>, dropped |-> FALSE]
New(stream) ==
  [kind |-> "Dynamic", bytes |-> <<>>, stream |-> stream, source |-> stream,
   dropped |-> FALSE]

InitBelt ==
  /\ NoStore
  /\ keys = [stage |-> "none", input |-> <<>>, values |-> <<>>, key |-> <<>>]
  /\ belt_inner \in {NewFromBytes(b) : b \in Buffers} \cup {Empty} \cup {New(s) : s \in Streams}
  /\ belt_count = 0
  /\ belt_out = <<>>
  /\ NoBlobs

\* A poll that hands out the buffer and keeps it.
poll_inner_peek(inner) ==
  IF inner.kind = "Static"
  THEN [result |-> IF inner.bytes = <<>> THEN ReadyNone ELSE ReadyOk(inner.bytes[1]),
        inner |-> inner]
  ELSE [result |-> IF inner.stream = <<>> THEN ReadyNone ELSE Head(inner.stream),
        inner |-> IF inner.stream = <<>> THEN inner
                  ELSE [inner EXCEPT !.stream = Tail(@)]]

\* match &mut self.inner: bytes.take().map(Ok) of a static Belt, the poll of
\* the stream of a dynamic one.
poll_inner(inner) ==
  IF inner.kind = "Static"
  THEN [result |-> IF inner.bytes = <<>> THEN ReadyNone ELSE ReadyOk(inner.bytes[1]),
        inner |-> [inner EXCEPT !.bytes = <<>>]]
  ELSE [result |-> IF inner.stream = <<>> THEN ReadyNone ELSE Head(inner.stream),
        inner |-> IF inner.stream = <<>> THEN inner
                  ELSE [inner EXCEPT !.stream = Tail(@)]]

\* A counter of chunks.
Counted_chunks(result) == IF result.kind = "Ok" THEN 1 ELSE 0

\* The bytes a poll result adds to the counter: bytes.len() of
\* Poll::Ready(Some(Ok(bytes))), nothing otherwise.
Counted(result) == IF result.kind = "Ok" THEN Len(result.bytes) ELSE 0

\* Belt::poll_next. (The counter is a u64; the sums here stay far below 2^64.)
BeltPollNext ==
  /\ belt_inner.kind \in {"Static", "Dynamic"}
  /\ ~belt_inner.dropped
  /\ Len(belt_out) < MaxPolls
  /\ LET p == poll_inner(belt_inner)
     IN /\ belt_inner' = p.inner
        /\ belt_count' = belt_count + Counted(p.result)
        /\ belt_out' = Append(belt_out, p.result)
  /\ UNCHANGED <<storeVars, keys, blobVars>>

\* The Belt is dropped (consumed by collect_bytes, or let go): the Counters
\* keep the shared count alive.
BeltDrop ==
  /\ belt_inner.kind \in {"Static", "Dynamic"}
  /\ ~belt_inner.dropped
  /\ belt_inner' = [belt_inner EXCEPT !.dropped = TRUE]
  /\ UNCHANGED <<storeVars, keys, belt_count, belt_out, blobVars>>

NextBelt == BeltPollNext \/ BeltDrop

SpecBelt == InitBelt /\ [][NextBelt]_vars

\* Counter::get of any Counter obtained from the Belt.
CounterGet == belt_count

\* The total length of the Ok chunks among the first n poll results.
RECURSIVE Yielded(_)
Yielded(n) ==
  IF n = 0 THEN 0
  ELSE Yielded(n - 1) + (IF belt_out[n].kind = "Ok" THEN Len(belt_out[n].bytes) ELSE 0)

\* C29: a Belt made from one buffer yields that buffer, whole, as the first
\* poll's chunk and end-of-stream on every later poll; Belt::empty() yields
\* end-of-stream from the first poll on.
C29_StaticBeltConsumedOnce ==
  belt_inner.kind = "Static" =>
    \A n \in 1..Len(belt_out) :
      belt_out[n] = IF n = 1 /\ belt_inner.source # <<>>
                    THEN ReadyOk(belt_inner.source[1])
                    ELSE ReadyNone

\* C29 witness: a Belt made from a two-byte buffer was polled three times.
C29_Witness ==
  /\ belt_inner.kind = "Static" /\ belt_inner.source = <<<<0, 1>>>>
  /\ belt_out = <<ReadyOk(<<0, 1>>), ReadyNone, ReadyNone>>

\* C30: what a Counter reads is at every point the total length of the Ok
\* chunks the Belt has yielded so far: 0 at first, grown by the chunk's
\* length by a poll that yields an Ok chunk, unchanged by a poll that yields
\* an error, Pending or end-of-stream, never decreasing, and still readable,
\* with the same value, once the Belt is dropped.
C30_CounterIsBytesYielded ==
  /\ [](CounterGet = Yielded(Len(belt_out)))
  /\ [](belt_out = <<>> => CounterGet = 0)
  /\ [][/\ CounterGet' >= CounterGet
        /\ Len(belt_out') > Len(belt_out) =>
             LET r == belt_out'[Len(belt_out')]
             IN CounterGet' = CounterGet + (IF r.kind = "Ok" THEN Len(r.bytes) ELSE 0)
        /\ belt_inner'.dropped => CounterGet' = CounterGet]_vars

\* C30 witness: a dynamic Belt yielded a two-byte chunk, an error and a
\* one-byte chunk and was dropped; the Counter reads 3.
C30_Witness ==
  /\ belt_inner.dropped
  /\ Len(belt_out) = 3
  /\ belt_out[1].kind = "Ok" /\ Len(belt_out[1].bytes) = 2
  /\ belt_out[2].kind = "Err"
  /\ belt_out[3].kind = "Ok" /\ Len(belt_out[3].bytes) = 1
  /\ CounterGet = 3

(***************************************************************************)
(* crates/storage-impl-memory: BlobStorageMemory, the blobs kept in a map  *)
(* behind a tokio RwLock.                                                  *)
(***************************************************************************)

\* The blob keys: BlobKey is any string.
BlobKeys == {<<"k">>, <<"j">>}

\* The streams put_stream is given: chunks, and an io::Error at the end of one.
RequestStreams ==
  {<<ReadyOk(<<0>>)>>, <<ReadyOk(<<0>>), ReadyOk(<<1>>)>>, <<ReadyOk(<<1>>), ReadyErr>>}

\* data.try_collect() and the loop that combines the chunks: the bytes of
\* all chunks in order, or the first error.
RECURSIVE TryCollect(_)
TryCollect(stream) ==
  IF stream = <<>> THEN [ok |-> TRUE, bytes |-> <<>>]
  ELSE IF Head(stream).kind = "Err" THEN [ok |-> FALSE, bytes |-> <<>>]
  ELSE LET rest == TryCollect(Tail(stream))
       IN IF rest.ok THEN [ok |-> TRUE, bytes |-> Head(stream).bytes \o rest.bytes]
          ELSE rest

\* StoredBlob::new. (The etag is a function of the data; the timestamp is
\* not read by any operation modelled here.)
StoredBlob(bytes) == [data |-> bytes]

BlobCall(op, key, res, out) == [op |-> op, key |-> key, res |-> res, out |-> out]

\* storage.contains_key(key.as_str())
Exists(key) == key \in DOMAIN storage

\* put_stream up to the end of the overwrite check: with overwrite = false
\* the map is read under the read lock, which is released before the stream
\* is collected.
PutStreamCheck(c, key, stream, overwrite) ==
  /\ puts[c].pc = "idle"
  /\ IF ~overwrite /\ Exists(key)
     THEN /\ blob_last' = BlobCall("put_stream", key, "AlreadyExists", <<>>)
          /\ UNCHANGED puts
     ELSE /\ puts' = [puts EXCEPT ![c] = [pc |-> "collect", key |-> key,
                                         stream |-> stream, overwrite |-> overwrite]]
          /\ UNCHANGED blob_last
  /\ UNCHANGED <<storeVars, keys, belt_inner, belt_count, belt_out, storage>>

\* The rest of put_stream: the stream is collected and the blob is inserted
\* under the write lock.
PutStreamStore(c) ==
  /\ puts[c].pc = "collect"
  /\ LET r == TryCollect(puts[c].stream)
     IN IF r.ok
        THEN /\ storage' = MapPut(storage, puts[c].key, StoredBlob(r.bytes))
             /\ blob_last' = BlobCall("put_stream", puts[c].key, "Ok", <<>>)
        ELSE /\ blob_last' = BlobCall("put_stream", puts[c].key, "StreamError", <<>>)
             /\ UNCHANGED storage
  /\ puts' = [puts EXCEPT ![c] = NoPut]
  /\ UNCHANGED <<storeVars, keys, belt_inner, belt_count, belt_out>>

\* get_stream: the whole blob as the one chunk of the stream.
GetStream(key) ==
  /\ blob_last' = IF Exists(key)
                  THEN BlobCall("get_stream", key, "Ok", <<storage[key].data>>)
                  ELSE BlobCall("get_stream", key, "NotFound", <<>>)
  /\ UNCHANGED <<storeVars, keys, belt_inner, belt_count, belt_out, storage, puts>>

\* head: Some(metadata) with the size, or None.
BlobHead(key) ==
  /\ blob_last' = BlobCall("head", key, "Ok",
                           IF Exists(key) THEN <<Len(storage[key].data)>> ELSE <<>>)
  /\ UNCHANGED <<storeVars, keys, belt_inner, belt_count, belt_out, storage, puts>>

\* delete
BlobDelete(key) ==
  /\ IF Exists(key)
     THEN /\ storage' = MapRemove(storage, key)
          /\ blob_last' = BlobCall("delete", key, "Ok", <<>>)
     ELSE /\ blob_last' = BlobCall("delete", key, "NotFound", <<>>)
          /\ UNCHANGED storage
  /\ UNCHANGED <<storeVars, keys, belt_inner, belt_count, belt_out, puts>>

\* A u64 as four 16-bit limbs, the most significant first.
U64s == {<<0, 0, 0, 0>>, <<0, 0, 0, 3600>>, <<0, 0, 65535, 65535>>, <<0, 1, 0, 0>>,
         <<65535, 65535, 65535, 65535>>}

\* u64::from(u32::MAX)
U32Max == <<0, 0, 65535, 65535>>

\* a > b on u64
GreaterU64(a, b) ==
  \E i \in 1..4 : a[i] > b[i] /\ \A j \in 1..(i - 1) : a[j] = b[j]

\* std::time::Duration: whole seconds and the nanoseconds of the next one.
Durations == [secs : U64s, nanos : {0, 999999999}]

\* Duration::as_secs: the whole seconds.
AsSecs(expiry) == expiry.secs

\* An expiry check on nothing.
ExpiryTooLong_never(expiry) == FALSE

\* expiry_secs > u64::from(u32::MAX)
ExpiryTooLong(expiry) == GreaterU64(AsSecs(expiry), U32Max)

\* get_presigned_url
GetPresignedUrl(key, expiry) ==
  /\ blob_last' =
       IF ExpiryTooLong(expiry)
       THEN BlobCall("get_presigned_url", key, "InvalidInput", <<>>)
       ELSE IF ~Exists(key)
       THEN BlobCall("get_presigned_url", key, "NotFound", <<>>)
       ELSE BlobCall("get_presigned_url", key, "Ok", <<"memory://blob/">> \o key)
  /\ UNCHANGED <<storeVars, keys, belt_inner, belt_count, belt_out, storage, puts>>

InitBlobs ==
  /\ NoStore
  /\ keys = [stage |-> "none", input |-> <<>>, values |-> <<>>, key |-> <<>>]
  /\ belt_inner = NoBelt
  /\ belt_count = 0
  /\ belt_out = <<>>
  /\ NoBlobs

NextBlobs ==
  \/ \E c \in Clients : \E key \in BlobKeys : \E stream \in RequestStreams :
       \E overwrite \in BOOLEAN : PutStreamCheck(c, key, stream, overwrite)
  \/ \E c \in Clients : PutStreamStore(c)
  \/ \E key \in BlobKeys : GetStream(key)
  \/ \E key \in BlobKeys : BlobHead(key)
  \/ \E key \in BlobKeys : BlobDelete(key)
  \/ \E key \in BlobKeys : \E expiry \in Durations : GetPresignedUrl(key, expiry)

SpecBlobs == InitBlobs /\ [][NextBlobs]_vars

\* C31: put_stream with overwrite = false never replaces an existing blob:
\* on a key that holds a blob it fails with AlreadyExists and leaves the
\* bytes alone, and of concurrent calls with overwrite = false on one key
\* none stores its data over a blob that is already there; with overwrite
\* = true the blob is replaced and get_stream returns the new bytes.
C31_PutNeverReplaces ==
  /\ [](blob_last.op = "get_stream" /\ blob_last.res = "Ok" =>
          blob_last.out = <<storage[blob_last.key].data>>)
  /\ [][/\ \A c \in Clients : \A key \in BlobKeys :
             (puts[c].pc = "idle" /\ blob_last' # blob_last
              /\ blob_last'.op = "put_stream" /\ blob_last'.key = key /\ Exists(key)
              /\ blob_last'.res = "AlreadyExists") => storage' = storage
        /\ \A c \in Clients :
             (puts[c].pc = "collect" /\ puts'[c].pc = "idle" /\ blob_last'.res = "Ok") =>
               /\ storage'[puts[c].key].data = TryCollect(puts[c].stream).bytes
               /\ ~puts[c].overwrite => ~Exists(puts[c].key)]_vars

\* What the expiry check decides, in the claim's words: the expiry is longer
\* than u32::MAX seconds.
ExceedsU32MaxSeconds(expiry) ==
  GreaterU64(expiry.secs, U32Max) \/ (expiry.secs = U32Max /\ expiry.nanos > 0)

\* C32 as stated: InvalidInput whenever the expiry exceeds u32::MAX seconds,
\* also for a missing key; otherwise NotFound for a missing key and a
\* non-empty URL for a present one; the blobs are never changed.
C32_PresignedUrl_Original ==
  [][\A key \in BlobKeys : \A expiry \in Durations :
       GetPresignedUrl(key, expiry) =>
         /\ storage' = storage
         /\ blob_last'.res = IF ExceedsU32MaxSeconds(expiry) THEN "InvalidInput"
                             ELSE IF ~Exists(key) THEN "NotFound" ELSE "Ok"
         /\ blob_last'.res = "Ok" => blob_last'.out # <<>>]_vars

\* C32: get_presigned_url fails with InvalidInput whenever the whole seconds
\* of the expiry (Duration::as_secs) exceed u32::MAX, also for a missing key;
\* for whole seconds of at most u32::MAX it fails with NotFound when the key
\* holds no blob and returns a non-empty URL otherwise; it never changes the
\* stored blobs.
C32_PresignedUrl ==
  [][\A key \in BlobKeys : \A expiry \in Durations :
       GetPresignedUrl(key, expiry) =>
         /\ storage' = storage
         /\ blob_last'.res = IF GreaterU64(expiry.secs, U32Max) THEN "InvalidInput"
                             ELSE IF ~Exists(key) THEN "NotFound" ELSE "Ok"
         /\ blob_last'.res = "Ok" => blob_last'.out # <<>>]_vars

\* C32 witness: get_presigned_url returned InvalidInput for a key that
\* holds no blob, while the other key holds one.
C32_Witness ==
  /\ blob_last.op = "get_presigned_url" /\ blob_last.res = "InvalidInput"
  /\ blob_last.key \notin DOMAIN storage
  /\ storage # EmptyMap

\* C33: update never conflicts with the record's own index entries. An
\* update of an existing record whose keys on the unique indices are its
\* current ones, or are held by no other live record, succeeds on either
\* backend; and whenever an update is refused with UniqueViolation, a
\* different live record holds the key the error names.
C33_UpdateKeepsOwnKeys ==
  /\ [][\A m \in Models :
          (last'.op = "update" /\ last'.model = m /\ Live(m.id) /\ ~KeyHeldByOther(m)) =>
            /\ last'.res.kind = "Ok"
            /\ Get(m.id)' = <<m>>]_vars
  /\ []((last.op = "update" /\ last.res.kind = "UniqueViolation") =>
          \E k \in UniqueDefs : \E j \in Ids :
            /\ j # last.model.id /\ Live(j)
            /\ definitions[k].name = last.res.index
            /\ KeyOf(k, Get(j)[1]) = KeyOf(k, last.model)
            /\ KeyOf(k, last.model) = last.res.value)

\* C33 witness: the relational backend accepted an update that keeps the
\* record's email, the key of its unique index, and its name, and changes
\* its age, while another record is stored.
C33_Witness ==
  /\ backend = "postgres"
  /\ last.op = "update" /\ last.res.kind = "Ok"
  /\ last.old # <<>>
  /\ last.old[1].email = last.model.email
  /\ last.old[1].name = last.model.name
  /\ last.old[1].age # last.model.age
  /\ Count = 2

\* Records with three emails to move between, and one name and one age.
ReleaseModels == [id : Ids, email : Emails \cup {<<"c">>}, name : {<<"x">>}, age : {1}]

\* One caller at a time writes those records.
NextRelease ==
  \/ MockInitializeSchema
  \/ PgInitializeSchema
  \/ \E m \in ReleaseModels : MockInsert(m)
  \/ \E m \in ReleaseModels : PgInsert(m)
  \/ \E m \in ReleaseModels : MockUpdate(m)
  \/ \E m \in ReleaseModels : PgUpdate(m)
  \/ \E id \in Ids : MockDelete(id)
  \/ \E id \in Ids : PgDelete(id)

SpecRelease == Init /\ [][NextRelease]_vars

\* C34: a unique key is released as soon as its holder gives it up. After a
\* successful delete of record r, or a successful update that changes r's
\* key on a unique index from A to B, find_by_unique_index(selector, A)
\* returns None, and an insert or update of a different record with key A
\* that follows succeeds, on either backend.
C34_UniqueKeyReleased ==
  /\ []((last.op \in {"delete", "update"} /\ last.res.kind = "Ok" /\ last.old # <<>>) =>
          \A k \in UniqueDefs :
            LET A == Extract(definitions[k], last.old[1])[1]
                f == FindByUniqueIndex(definitions[k].name, A)
            IN (last.op = "delete" \/ KeyOf(k, last.old[1]) # KeyOf(k, last.model)) =>
                 /\ f.res.kind = "Ok"
                 /\ f.found = {}
                 /\ \A j \in Ids : Live(j) => KeyOf(k, Get(j)[1]) # KeyOf(k, last.old[1]))
  /\ [][\A m \in ReleaseModels :
          (/\ last.op \in {"delete", "update"} /\ last.res.kind = "Ok" /\ last.old # <<>>
           /\ last.old[1].id # m.id
           /\ last.old[1].email = m.email
           /\ (last.op = "delete" \/ last.model.email # m.email)
           /\ last'.op \in {"insert", "update"} /\ last'.model = m
           /\ (last'.op = "insert" => ~Live(m.id))
           /\ (last'.op = "update" => Live(m.id))) =>
            /\ last'.res.kind = "Ok"
            /\ Get(m.id)' = <<m>>]_vars

\* C34 witness: an update changed a record's email from b to a while a
\* record with email c is stored: no lookup by b finds anything.
C34_Witness ==
  /\ last.op = "update" /\ last.res.kind = "Ok"
  /\ last.old # <<>>
  /\ last.old[1].email = <<"b">> /\ last.model.email = <<"a">>
  /\ FindByUniqueIndex("email", IndexValueNewSingle(<<"b">>)).found = {}
  /\ \E j \in Ids : j # last.model.id /\ Live(j) /\ Get(j)[1].email = <<"c">>

\* A store of either model type, before the first call.
InitUnique ==
  /\ backend \in {"mock", "postgres"}
  /\ registry \in {"User", "Account"}
  /\ pending = [c \in Clients |-> NoPending]
  /\ data = EmptyMap
  /\ indices = EmptyMap
  /\ initialized = FALSE
  /\ pg_schema = FALSE
  /\ pg_main = EmptyMap
  /\ pg_idx = EmptyBag
  /\ pg_updated_at = EmptyMap
  /\ pg_now = 1
  /\ tx = [c \in Clients |-> IdleTx]
  /\ last = Call("new", NoModel, Ok, <<>>)
  /\ keys = [stage |-> "none", input |-> <<>>, values |-> <<>>, key |-> <<>>]
  /\ belt_inner = NoBelt
  /\ belt_count = 0
  /\ belt_out = <<>>
  /\ NoBlobs

SpecUnique == InitUnique /\ [][Next]_vars

\* The unique indices on which a live record other than m's holds m's key.
Colliding(m) ==
  {k \in UniqueDefs :
     \E j \in Ids : j # m.id /\ Live(j) /\ KeyOf(k, Get(j)[1]) = KeyOf(k, m)}

\* C35: every UniqueViolation that insert or update returns names a declared
\* unique index on which the key of the incoming model is held by a
\* different live record, and its value is that key; when the model collides
\* on several unique indices it is the one declared first; on both backends.
C35_UniqueViolationNamesFirst ==
  (last.op \in {"insert", "update"} /\ last.res.kind = "UniqueViolation") =>
    LET bad == Colliding(last.model)
    IN /\ bad # {}
       /\ \E k \in bad :
            /\ \A j \in bad : k <= j
            /\ last.res = UniqueViolation(definitions[k].name, KeyOf(k, last.model))

\* C35 witness: on the relational backend an update whose email and name are
\* both held by the other record was refused, naming the email index.
C35_Witness ==
  /\ backend = "postgres" /\ registry = "Account"
  /\ last.op = "update" /\ last.res.kind = "UniqueViolation"
  /\ last.res.index = "email"
  /\ Cardinality(Colliding(last.model)) = 2

\* A read on either backend: a read-locked look at the maps, or SELECTs.
ReadStep(call) == MockReadStep(call) \/ PgReadStep(call)

\* What a read returns on the store's backend.
ReadOf(value, none) ==
  IF backend = "postgres" THEN PgRead(value, none) ELSE [res |-> Ok, found |-> value]

\* Store::get_or_error
GetOrErrorCall(id) ==
  LET r == ReadOf(Get(id), <<>>)
  IN ReadStep(ReadCall("get_or_error", id, "", <<>>,
                       IF r.res.kind = "Ok" /\ r.found = <<>> THEN Err("NotFound") ELSE r.res,
                       r.found))

\* Store::get_many
GetManyCall(ids) ==
  LET r == ReadOf(GetMany(ids), <<>>)
  IN ReadStep([ReadCall("get_many", NoId, "", <<>>, r.res, r.found) EXCEPT !.key = ids])

\* Store::list
ListCall(limit, offset) ==
  \E order \in ListOrders :
    LET r == List(order, limit, offset)
    IN ReadStep([ReadCall("list", NoId, "", <<>>, r.res, r.found)
                   EXCEPT !.key = <<limit, offset>>])

\* Store::list_all: list(u64::MAX, 0), a limit above any number of records.
ListAllCall ==
  \E order \in ListOrders :
    LET r == List(order, NumIds + 1, 0)
    IN ReadStep(ReadCall("list_all", NoId, "", <<>>, r.res, r.found))

\* Store::count_by_index
CountByIndexCall(selector, key) ==
  LET r == CountByIndex(selector, key)
  IN ReadStep(ReadCall("count_by_index", NoId, selector, key, r.res, r.n))

\* Store::exists_by_unique_index
ExistsByUniqueIndexCall(selector, key) ==
  LET r == FindByUniqueIndex(selector, key)
  IN ReadStep(ReadCall("exists_by_unique_index", NoId, selector, key, r.res,
                       r.res.kind = "Ok" /\ r.found # {}))

\* One caller at a time, writing and reading with every read operation.
NextReads ==
  \/ MockInitializeSchema
  \/ PgInitializeSchema
  \/ \E m \in ConcModels : MockInsert(m) \/ PgInsert(m)
  \/ \E m \in ConcModels : MockUpdate(m) \/ PgUpdate(m)
  \/ \E id \in Ids : MockDelete(id) \/ PgDelete(id)
  \/ MockReads
  \/ PgReads
  \/ \E id \in Ids : GetOrErrorCall(id)
  \/ \E ids \in Batches : GetManyCall(ids)
  \/ \E limit \in Limits, offset \in Limits : ListCall(limit, offset)
  \/ ListAllCall
  \/ \E sel \in AnySelectors, key \in AllKeys : CountByIndexCall(sel, key)
  \/ \E sel \in AnySelectors, key \in AllKeys : ExistsByUniqueIndexCall(sel, key)

SpecReads == Init /\ [][NextReads]_vars

\* The read operations of the store.
AllReadOps ==
  {"get", "get_many", "get_or_error", "find_by_unique_index", "find_by_index",
   "find_one_by_index", "list", "list_all", "count", "count_by_index", "exists",
   "exists_by_unique_index"}

\* C36: the read operations are pure. A step of get, get_many, get_or_error,
\* find_by_unique_index, find_by_index, find_one_by_index, list, list_all,
\* count, count_by_index, exists or exists_by_unique_index leaves every
\* stored record and every index entry as it was, whether the call succeeds
\* or returns an error.
C36_ReadsArePure ==
  [][(last' # last /\ last'.op \in AllReadOps) => Tables' = Tables]_vars

\* C36 witness: find_by_index on an undeclared selector returned an error on
\* a store that holds two records.
C36_Witness ==
  /\ last.op = "find_by_index" /\ last.res.kind = "IndexNotFound"
  /\ Count = 2

(***************************************************************************)
(* Store::upsert and Store::delete_and_return with other callers at work:   *)
(* each is a read followed by a write, two calls on the store, and the      *)
(* calls of other callers may come between them.                            *)
(***************************************************************************)

\* What the steps of those calls leave alone besides the store.
restVars == <<registry, keys, belt_inner, belt_count, belt_out, blobVars>>

\* self.exists(&model.id()).await? of upsert
UpsertExists(c, m) ==
  /\ pending[c].op = ""
  /\ backend = "postgres" => pg_schema
  /\ pending' = [pending EXCEPT ![c] = [op |-> "upsert", model |-> m, seen |-> <<Live(m.id)>>]]
  /\ UNCHANGED <<backend, restVars, mockVars, pgVars, last>>

\* The update or insert the match of upsert chose, in-memory backend.
MockUpsertWrite(c) ==
  /\ backend = "mock"
  /\ pending[c].op = "upsert"
  /\ LET m == pending[c].model
         exists == pending[c].seen[1]
         r == IF exists THEN mock_update(Inner, m) ELSE mock_insert(Inner, m)
     IN /\ data' = r.inner.data
        /\ indices' = r.inner.indices
        /\ last' = Call("upsert", m, IF r.res.kind # "Ok" THEN r.res ELSE UpsertOk(~exists),
                        MockGet(m.id))
  /\ pending' = [pending EXCEPT ![c] = NoPending]
  /\ UNCHANGED <<backend, restVars, initialized, pgVars>>

\* The update or insert the match of upsert chose, relational backend.
PgUpsertWrite(c) ==
  /\ backend = "postgres"
  /\ pending[c].op = "upsert"
  /\ LET m == pending[c].model
         exists == pending[c].seen[1]
         r == IF exists THEN PgUpdateTx(Committed, m) ELSE PgInsertTx(Committed, m)
     IN /\ pg_main' = r.db.main
        /\ pg_idx' = r.db.idx
        /\ Clock(r.db.at, tx)
        /\ last' = Call("upsert", m, IF r.res.kind # "Ok" THEN r.res ELSE UpsertOk(~exists),
                        PgGet(m.id))
  /\ pending' = [pending EXCEPT ![c] = NoPending]
  /\ UNCHANGED <<backend, restVars, mockVars, pg_schema>>

\* let model = self.get_or_error(id).await? of delete_and_return
DeleteAndReturnGet(c, id) ==
  /\ pending[c].op = ""
  /\ backend = "postgres" => pg_schema
  /\ IF Live(id)
     THEN /\ pending' = [pending EXCEPT ![c] = [op |-> "delete_and_return",
                                               model |-> IdOnly(id), seen |-> Get(id)]]
          /\ UNCHANGED last
     ELSE /\ last' = ReadCall("delete_and_return", id, "", <<>>, Err("NotFound"), <<>>)
          /\ UNCHANGED pending
  /\ UNCHANGED <<backend, restVars, mockVars, pgVars>>

\* self.delete(id).await?; Ok(model) of delete_and_return, in-memory backend.
MockDeleteAndReturnDelete(c) ==
  /\ backend = "mock"
  /\ pending[c].op = "delete_and_return"
  /\ LET id == pending[c].model.id
         r == mock_delete(Inner, id)
     IN /\ data' = r.inner.data
        /\ indices' = r.inner.indices
        /\ last' = [ReadCall("delete_and_return", id, "", <<>>, r.res,
                             IF r.res.kind = "Ok" THEN pending[c].seen ELSE <<>>)
                      EXCEPT !.old = MockGet(id)]
  /\ pending' = [pending EXCEPT ![c] = NoPending]
  /\ UNCHANGED <<backend, restVars, initialized, pgVars>>

\* self.delete(id).await?; Ok(model) of delete_and_return, relational backend.
PgDeleteAndReturnDelete(c) ==
  /\ backend = "postgres"
  /\ pending[c].op = "delete_and_return"
  /\ LET id == pending[c].model.id
         r == PgDeleteMainRow(Committed, id)
     IN /\ pg_main' = r.db.main
        /\ pg_idx' = r.db.idx
        /\ Clock(r.db.at, tx)
        /\ last' = [ReadCall("delete_and_return", id, "", <<>>, r.res,
                             IF r.res.kind = "Ok" THEN pending[c].seen ELSE <<>>)
                      EXCEPT !.old = PgGet(id)]
  /\ pending' = [pending EXCEPT ![c] = NoPending]
  /\ UNCHANGED <<backend, restVars, mockVars, pg_schema>>

\* The models the racing callers write: one name, one age.
RaceModels == {m \in ConcModels : m.name = <<"x">>}

\* The callers' upserts next to the inserts and deletes of others.
NextUpserts ==
  \/ MockInitializeSchema
  \/ PgInitializeSchema
  \/ \E m \in RaceModels : MockInsert(m) \/ PgInsert(m)
  \/ \E id \in Ids : MockDelete(id) \/ PgDelete(id)
  \/ \E c \in Clients, m \in RaceModels : UpsertExists(c, m)
  \/ \E c \in Clients : MockUpsertWrite(c) \/ PgUpsertWrite(c)

SpecUpserts == Init /\ [][NextUpserts]_vars

\* The callers' delete_and_return next to the writes of others.
NextDeletes ==
  \/ MockInitializeSchema
  \/ PgInitializeSchema
  \/ \E m \in RaceModels : MockInsert(m) \/ PgInsert(m)
  \/ \E m \in RaceModels : MockUpdate(m) \/ PgUpdate(m)
  \/ \E id \in Ids : MockDelete(id) \/ PgDelete(id)
  \/ \E c \in Clients, id \in Ids : DeleteAndReturnGet(c, id)
  \/ \E c \in Clients : MockDeleteAndReturnDelete(c) \/ PgDeleteAndReturnDelete(c)

SpecDeletes == Init /\ [][NextDeletes]_vars

\* C37: upsert is atomic with respect to concurrent writers of the same id.
\* An upsert(m) that runs while another upsert, an insert or a delete of m.id
\* runs never fails with the duplicate-id error of insert or with NotFound,
\* and it returns true only if it is the call that created the record.
C37_UpsertAtomic ==
  [][\A c \in Clients : \A m \in RaceModels :
       (pending[c].op = "upsert" /\ pending[c].model = m /\ pending'[c].op = "") =>
         /\ last'.res.kind \notin {"Database", "NotFound"}
         /\ last'.res = UpsertOk(TRUE) => (~Live(m.id) /\ Live(m.id)')]_vars

\* C38: delete_and_return(id) returns the document that was stored at the
\* moment the record was removed, also when an update or delete of the same
\* id runs at the same time: never a version that was already overwritten
\* when the delete took effect, and never NotFound after the record was read.
C38_DeleteAndReturnAtomic ==
  [][\A c \in Clients : \A id \in Ids :
       (/\ pending[c].op = "delete_and_return" /\ pending[c].model.id = id
        /\ pending'[c].op = "") =>
         /\ last'.res.kind # "NotFound"
         /\ last'.res.kind = "Ok" => last'.found = Get(id)]_vars

\* The number of (bucket, id) memberships of the buckets in S.
RECURSIVE Memberships(_)
Memberships(S) ==
  IF S = {} THEN 0
  ELSE LET b == CHOOSE x \in S : TRUE
       IN Len(indices[b]) + Memberships(S \ {b})

\* C39: the shape of the in-memory index map after any sequence of insert,
\* update, delete and clear: no bucket is empty, no bucket holds a record id
\* twice, every bucket of a unique index holds exactly one id, and the
\* (bucket, id) memberships number (live records) x (declared indices).
C39_IndexMapShape ==
  backend = "mock" =>
    /\ \A b \in DOMAIN indices :
         /\ indices[b] # <<>>
         /\ \A i, j \in 1..Len(indices[b]) : i # j => indices[b][i] # indices[b][j]
         /\ (\E k \in UniqueDefs : definitions[k].name = b[1]) => Len(indices[b]) = 1
    /\ Memberships(DOMAIN indices) = Cardinality(DOMAIN data) * Len(definitions)

\* C39 witness: after a delete emptied the bucket of the deleted record's
\* email, one record is left, and it has its three entries.
C39_Witness ==
  /\ backend = "mock"
  /\ last.op = "delete" /\ last.res.kind = "Ok" /\ last.old # <<>>
  /\ Cardinality(DOMAIN data) = 1
  /\ \A b \in DOMAIN indices : b[1] = "email" => b[2] # KeyOf(2, last.old[1])
  /\ Memberships(DOMAIN indices) = 3
====
